---------------------------- MODULE Spec2Model ----------------------------
(***************************************************************************)
(* Verification model of the weight-wb hardware core:                      *)
(*   - the scale polling engine (src/src/weight/mod.rs): the worker thread *)
(*     (runloop / open_port / perform_io / runloop_emulated), the Guard    *)
(*     (Mutex<bool> + Condvar), the shared reading (Mutex<WeightResult>)   *)
(*     and the owner thread calling weight() and dropping the engine;      *)
(*   - the printer's status codec and print job (src/src/printer).         *)
(***************************************************************************)
EXTENDS Integers, Sequences, FiniteSets, TLC

(***************************************************************************)
(* f64 values and str::parse::<f64>                                        *)
(*                                                                         *)
(* A finite f64 produced by parsing a decimal literal is represented by    *)
(* the literal's value  (-1)^neg * num * 10^e10  with num stripped of      *)
(* trailing zeros (the nearest double is a function of that value).        *)
(* ulp5 counts the accumulated rounding excess of the emulated ramp in     *)
(* fifths of a unit in the last place; it is 0 for parsed values.          *)
(***************************************************************************)
F64Fin(neg, num, e10) ==
    [cls |-> "fin", neg |-> neg, num |-> num, e10 |-> e10, ulp5 |-> 0, text |-> ""]
F64Inf(neg) ==
    [cls |-> "inf", neg |-> neg, num |-> 0, e10 |-> 0, ulp5 |-> 0, text |-> ""]
F64NaN ==
    [cls |-> "nan", neg |-> FALSE, num |-> 0, e10 |-> 0, ulp5 |-> 0, text |-> ""]

\* mutant: the sign is dropped
F64MulSign_Ignored(negative, v) == v

\* sign * weight_kg with sign = 1.0 or -1.0 (IEEE: flips the sign bit, NaN stays NaN)
F64MulSign(negative, v) ==
    IF negative /\ v.cls # "nan" THEN [v EXCEPT !.neg = ~v.neg] ELSE v

\* v is a number strictly greater / smaller than zero
F64Positive(v) == v.cls # "nan" /\ ~v.neg /\ (v.cls = "inf" \/ v.num > 0)
F64Negative(v) == v.cls # "nan" /\ v.neg /\ (v.cls = "inf" \/ v.num > 0)

RECURSIVE Pow10(_)
Pow10(n) == IF n <= 0 THEN 1 ELSE 10 * Pow10(n - 1)

RECURSIVE NumDigits(_)
NumDigits(n) == IF n < 10 THEN 1 ELSE 1 + NumDigits(n \div 10)

\* str::from_utf8: the code points of a well-formed UTF-8 byte string
\* (no overlong forms, no surrogates, nothing above U+10FFFF), or failure.
Utf8Need(b0) ==
    IF b0 <= 127 THEN 1
    ELSE IF b0 >= 194 /\ b0 <= 223 THEN 2
    ELSE IF b0 >= 224 /\ b0 <= 239 THEN 3
    ELSE IF b0 >= 240 /\ b0 <= 244 THEN 4
    ELSE 0

Utf8IsCont(b) == b >= 128 /\ b <= 191

Utf8SecondOk(b0, b1) ==
    CASE b0 = 224 -> b1 >= 160 /\ b1 <= 191
      [] b0 = 237 -> b1 >= 128 /\ b1 <= 159
      [] b0 = 240 -> b1 >= 144 /\ b1 <= 191
      [] b0 = 244 -> b1 >= 128 /\ b1 <= 143
      [] OTHER    -> Utf8IsCont(b1)

RECURSIVE Utf8Decode(_)
Utf8Decode(bs) ==
    IF bs = <<>> THEN [ok |-> TRUE, cps |-> <<>>]
    ELSE
      LET b0   == bs[1]
          need == Utf8Need(b0)
          good == /\ need > 0
                  /\ Len(bs) >= need
                  /\ need >= 2 => Utf8SecondOk(b0, bs[2])
                  /\ need >= 3 => Utf8IsCont(bs[3])
                  /\ need >= 4 => Utf8IsCont(bs[4])
      IN IF ~good THEN [ok |-> FALSE, cps |-> <<>>]
         ELSE
           LET cp == CASE need = 1 -> b0
                       [] need = 2 -> (b0 - 192) * 64 + (bs[2] - 128)
                       [] need = 3 -> (b0 - 224) * 4096 + (bs[2] - 128) * 64
                                        + (bs[3] - 128)
                       [] need = 4 -> (b0 - 240) * 262144 + (bs[2] - 128) * 4096
                                        + (bs[3] - 128) * 64 + (bs[4] - 128)
               rest == Utf8Decode(SubSeq(bs, need + 1, Len(bs)))
           IN IF rest.ok THEN [ok |-> TRUE, cps |-> <<cp>> \o rest.cps]
              ELSE rest

\* char::is_whitespace (Unicode White_Space), as used by str::trim
IsWhitespace(c) ==
    \/ c \in 9..13
    \/ c \in {32, 133, 160, 5760, 8232, 8233, 8239, 8287, 12288}
    \/ c \in 8192..8202

RECURSIVE TrimStart(_)
TrimStart(s) ==
    IF s # <<>> /\ IsWhitespace(s[1]) THEN TrimStart(Tail(s)) ELSE s

RECURSIVE TrimEnd(_)
TrimEnd(s) ==
    IF s # <<>> /\ IsWhitespace(s[Len(s)])
    THEN TrimEnd(SubSeq(s, 1, Len(s) - 1)) ELSE s

Trim(s) == TrimEnd(TrimStart(s))

IsDigit(c) == c \in 48..57
AsciiLower(c) == IF c \in 65..90 THEN c + 32 ELSE c

\* number of consecutive decimal digits of s starting at index i
RECURSIVE DigitRun(_, _)
DigitRun(s, i) ==
    IF i <= Len(s) /\ IsDigit(s[i]) THEN 1 + DigitRun(s, i + 1) ELSE 0

\* value of the n digits of s starting at index i
RECURSIVE DigitsValue(_, _, _)
DigitsValue(s, i, n) ==
    IF n = 0 THEN 0
    ELSE 10 * DigitsValue(s, i, n - 1) + (s[i + n - 1] - 48)

RECURSIVE StripZeros(_, _)
StripZeros(num, e10) ==
    IF num # 0 /\ num % 10 = 0 THEN StripZeros(num \div 10, e10 + 1)
    ELSE <<num, e10>>

\* The double nearest to num * 10^e10: overflow gives infinity, underflow zero
\* (largest finite double 1.797693...e308, half the least subnormal 2.470328...e-324).
F64Round(neg, num, e10) ==
    IF num = 0 THEN F64Fin(neg, 0, 0)
    ELSE
      LET n    == StripZeros(num, e10)
          nd   == NumDigits(n[1])
          mag  == nd + n[2]
          lead == n[1] * Pow10(6 - nd)
      IN IF mag > 309 \/ (mag = 309 /\ lead >= 179770) THEN F64Inf(neg)
         ELSE IF mag < -323 \/ (mag = -323 /\ lead <= 247032) THEN F64Fin(neg, 0, 0)
         ELSE F64Fin(neg, n[1], n[2])

ParseErr == [ok |-> FALSE, val |-> F64NaN]
ParseOk(v) == [ok |-> TRUE, val |-> v]

\* <f64 as FromStr>::from_str on a sequence of code points:
\*   Float  ::= Sign? ( 'inf' | 'infinity' | 'nan' | Number )      (letters in any case)
\*   Number ::= ( Digit+ | Digit+ '.' Digit* | Digit* '.' Digit+ ) Exp?
\*   Exp    ::= 'e' Sign? Digit+
ParseF64(str) ==
    LET signed == str # <<>> /\ str[1] \in {43, 45}
        neg    == str # <<>> /\ str[1] = 45
        s      == IF signed THEN Tail(str) ELSE str
        low    == [i \in 1..Len(s) |-> AsciiLower(s[i])]
        ni     == DigitRun(s, 1)
        dot    == ni + 1 <= Len(s) /\ s[ni + 1] = 46
        nf     == IF dot THEN DigitRun(s, ni + 2) ELSE 0
        mend   == ni + (IF dot THEN 1 ELSE 0) + nf
        hasExp == mend + 1 <= Len(s) /\ AsciiLower(s[mend + 1]) = 101
        esign  == hasExp /\ mend + 2 <= Len(s) /\ s[mend + 2] \in {43, 45}
        eneg   == esign /\ s[mend + 2] = 45
        estart == mend + 2 + (IF esign THEN 1 ELSE 0)
        ne     == IF hasExp THEN DigitRun(s, estart) ELSE 0
        ex     == DigitsValue(s, estart, ne)
        mant   == DigitsValue(s, 1, ni) * Pow10(nf) + DigitsValue(s, ni + 2, nf)
        e10    == (IF eneg THEN 0 - ex ELSE ex) - nf
    IN IF s = <<>> THEN ParseErr
       ELSE IF low = <<105, 110, 102>>
               \/ low = <<105, 110, 102, 105, 110, 105, 116, 121>>
            THEN ParseOk(F64Inf(neg))
       ELSE IF low = <<110, 97, 110>> THEN ParseOk(F64NaN)
       ELSE IF ni + nf = 0 THEN ParseErr
       ELSE IF hasExp /\ (ne = 0 \/ estart + ne - 1 # Len(s)) THEN ParseErr
       ELSE IF ~hasExp /\ mend # Len(s) THEN ParseErr
       ELSE ParseOk(F64Round(neg, mant, e10))

(***************************************************************************)
(* Scale readings: WeightResult = Result<f64, Error>                       *)
(***************************************************************************)
NoPayload ==
    [cls |-> "none", neg |-> FALSE, num |-> 0, e10 |-> 0, ulp5 |-> 0, text |-> ""]
MsgPayload(e) ==
    [cls |-> "msg", neg |-> FALSE, num |-> 0, e10 |-> 0, ulp5 |-> 0, text |-> e]

NotOpenedYet  == [tag |-> "NotOpenedYet", payload |-> NoPayload]
ErrSerialPort(e) == [tag |-> "SerialPort", payload |-> MsgPayload(e)]
ErrIO(e)      == [tag |-> "IO", payload |-> MsgPayload(e)]
FailedToParse == [tag |-> "FailedToParse", payload |-> NoPayload]
OkWeight(v)   == [tag |-> "Ok", payload |-> v]

\* a fully-formed WeightResult: the payload is the one its variant carries
CompleteReading(r) ==
    CASE r.tag \in {"NotOpenedYet", "FailedToParse"} -> r.payload = NoPayload
      [] r.tag \in {"SerialPort", "IO"} -> r.payload.cls = "msg"
      [] r.tag = "Ok" -> r.payload.cls \in {"fin", "inf", "nan"}
      [] OTHER -> FALSE

\* the value weight() hands out before it has been called / after it returned
NoValue == [tag |-> "-", payload |-> NoPayload]

(***************************************************************************)
(* The 45-byte weight response.  Rust indexes from 0, sequences from 1:    *)
(* weight_response[14] is element 15, weight_response[15..21] elements     *)
(* 16..21.                                                                 *)
(***************************************************************************)
WeightResponseLen == 45
SignOffset  == 14
DigitsStart == 15
DigitsEnd   == 21

\* a response frame with the given sign byte and 6-byte digit field; the
\* other bytes are ASCII '0' (perform_io never looks at them)
MakeResponse(sign, digits) ==
    [i \in 1..WeightResponseLen |->
        IF i = SignOffset + 1 THEN sign
        ELSE IF i \in (DigitsStart + 1)..DigitsEnd THEN digits[i - DigitsStart]
        ELSE 48]
NoResponse == <<>>

\* perform_io, after the fourth guard check: sign, from_utf8, trim, parse
DecodeWeightResponse(response) ==
    LET sign_byte    == response[SignOffset + 1]
        weight_bytes == SubSeq(response, DigitsStart + 1, DigitsEnd)
    IN IF sign_byte \notin {32, 45} THEN FailedToParse
       ELSE
         LET u == Utf8Decode(weight_bytes)
         IN IF ~u.ok THEN FailedToParse
            ELSE LET p == ParseF64(Trim(u.cps))
                 IN IF p.ok THEN OkWeight(F64MulSign(sign_byte = 45, p.val))
                    ELSE FailedToParse

\* digit fields the modelled device sends to the running engine
Digits01250 == <<48, 49, 50, 46, 53, 48>>          \* "012.50"
DigitsBlank == <<32, 32, 32, 32, 32, 32>>          \* "      "
EngineResponses ==
    {MakeResponse(s, d) : s \in {32, 45, 43}, d \in {Digits01250, DigitsBlank}}
ScriptedResponse == MakeResponse(45, Digits01250)

\* sign bytes and digit fields for the study of the decoder on its own
ParseSigns == {32, 45, 43, 0, 48}
ParseDigitFields ==
    { Digits01250, DigitsBlank,
      <<48, 48, 48, 46, 48, 48>>,        \* "000.00"
      <<32, 32, 49, 50, 46, 53>>,        \* "  12.5"
      <<49, 50, 46, 53, 32, 32>>,        \* "12.5  "
      <<57, 57, 57, 57, 57, 57>>,        \* "999999"
      <<49, 46, 32, 32, 32, 32>>,        \* "1.    "
      <<46, 53, 32, 32, 32, 32>>,        \* ".5    "
      <<32, 32, 69, 82, 82, 32>>,        \* "  ERR "
      <<49, 50, 44, 53, 48, 48>>,        \* "12,500"
      <<49, 50, 32, 46, 53, 48>>,        \* "12 .50"
      <<49, 46, 50, 46, 51, 32>>,        \* "1.2.3 "
      <<32, 32, 32, 32, 32, 46>>,        \* "     ."
      <<45, 49, 50, 46, 53, 48>>,        \* "-12.50"
      <<43, 49, 50, 46, 53, 48>>,        \* "+12.50"
      <<32, 32, 32, 105, 110, 102>>,     \* "   inf"
      <<32, 32, 32, 78, 97, 78>>,        \* "   NaN"
      <<49, 101, 50, 32, 32, 32>>,       \* "1e2   "
      <<50, 69, 51, 48, 56, 32>>,        \* "2E308 "
      <<255, 49, 50, 46, 53, 48>>,       \* 0xff "12.50": not UTF-8
      <<49, 50, 46, 53, 48, 194>>,       \* "12.50" and a cut-off sequence
      <<194, 160, 49, 50, 46, 53>>,      \* U+00A0 "12.5"
      <<217, 161, 217, 162, 32, 32>> }   \* Arabic-Indic digits one, two
ParseResponses ==
    {MakeResponse(s, d) : s \in ParseSigns, d \in ParseDigitFields}

\* the decoder's result for every response of the model, computed once
Decoded ==
    [r \in EngineResponses \cup ParseResponses |-> DecodeWeightResponse(r)]

\* errors the serial port layer can hand back
OpenErrors == {"NoDevice"}
IOErrors   == {"TimedOut", "BrokenPipe"}

(***************************************************************************)
(* Printer models (printer/model.rs) and label geometry (printer/label.rs) *)
(***************************************************************************)
Models ==
    {"BrotherQL500", "BrotherQL550", "BrotherQL560", "BrotherQL570",
     "BrotherQL580N", "BrotherQL600", "BrotherQL650TD", "BrotherQL700",
     "BrotherQL1050", "BrotherQL1060N"}

\* Model::line_width: bytes per raster line
LineWidth(m) == IF m \in {"BrotherQL1050", "BrotherQL1060N"} THEN 162 ELSE 90

\* the result of a conversion into Model
ModelOk(m) == [ok |-> TRUE, model |-> m]
ModelErr   == [ok |-> FALSE, model |-> "none"]

\* mutant: the mass-storage product ID is taken for a QL-700
ModelTryFromU16_MassStorage(value) ==
    CASE value = 8213 -> ModelOk("BrotherQL500")
      [] value = 8214 -> ModelOk("BrotherQL550")
      [] value = 8231 -> ModelOk("BrotherQL560")
      [] value = 8232 -> ModelOk("BrotherQL570")
      [] value = 8233 -> ModelOk("BrotherQL580N")
      [] value = 8384 -> ModelOk("BrotherQL600")
      [] value = 8219 -> ModelOk("BrotherQL650TD")
      [] value = 8258 -> ModelOk("BrotherQL700")
      [] value = 8265 -> ModelOk("BrotherQL700")
      [] value = 8224 -> ModelOk("BrotherQL1050")
      [] value = 8234 -> ModelOk("BrotherQL1060N")
      [] OTHER        -> ModelErr

\* impl TryFrom<u16> for Model (model.rs 41-58): 0x2015, 0x2016, 0x2027,
\* 0x2028, 0x2029, 0x20c0, 0x201b, 0x2042, 0x2020, 0x202a
ModelTryFromU16(value) ==
    CASE value = 8213 -> ModelOk("BrotherQL500")
      [] value = 8214 -> ModelOk("BrotherQL550")
      [] value = 8231 -> ModelOk("BrotherQL560")
      [] value = 8232 -> ModelOk("BrotherQL570")
      [] value = 8233 -> ModelOk("BrotherQL580N")
      [] value = 8384 -> ModelOk("BrotherQL600")
      [] value = 8219 -> ModelOk("BrotherQL650TD")
      [] value = 8258 -> ModelOk("BrotherQL700")
      [] value = 8224 -> ModelOk("BrotherQL1050")
      [] value = 8234 -> ModelOk("BrotherQL1060N")
      [] OTHER        -> ModelErr

\* str::strip_prefix(prefix).unwrap_or(value); a string is the sequence of
\* its characters
StripPrefixOr(value, prefix) ==
    IF Len(value) >= Len(prefix) /\ SubSeq(value, 1, Len(prefix)) = prefix
    THEN SubSeq(value, Len(prefix) + 1, Len(value))
    ELSE value

\* impl TryFrom<&str> for Model (model.rs 64-84)
ModelTryFromStr(name) ==
    LET v1 == StripPrefixOr(name, <<"B", "r", "o", "t", "h", "e", "r">>)
        v2 == StripPrefixOr(v1, <<"Q", "L">>)
    IN CASE v2 = <<"5", "0", "0">>           -> ModelOk("BrotherQL500")
         [] v2 = <<"5", "5", "0">>           -> ModelOk("BrotherQL550")
         [] v2 = <<"5", "6", "0">>           -> ModelOk("BrotherQL560")
         [] v2 = <<"5", "7", "0">>           -> ModelOk("BrotherQL570")
         [] v2 = <<"5", "8", "0", "N">>      -> ModelOk("BrotherQL580N")
         [] v2 = <<"6", "0", "0">>           -> ModelOk("BrotherQL600")
         [] v2 = <<"6", "5", "0", "T", "D">> -> ModelOk("BrotherQL650TD")
         [] v2 = <<"7", "0", "0">>           -> ModelOk("BrotherQL700")
         [] v2 = <<"1", "0", "5", "0">>      -> ModelOk("BrotherQL1050")
         [] v2 = <<"1", "0", "6", "0", "N">> -> ModelOk("BrotherQL1060N")
         [] OTHER                            -> ModelErr

\* label.rs line 70
IsWide(m) == m \in {"BrotherQL1050", "BrotherQL1060N"}

Continuous(width) == [kind |-> "Continuous", width |-> width, length |-> 0]
DieCut(width, length) == [kind |-> "DieCut", width |-> width, length |-> length]
NoMediaLoaded == [kind |-> "None", width |-> 0, length |-> 0]

\* Media::from_bytes (status.rs 62-89), the same as LabelType::from_bytes
MediaFromBytes(ty, width, length) ==
    CASE ty = 10 -> Continuous(width)
      [] ty = 11 -> DieCut(width, length)
      [] OTHER   -> NoMediaLoaded

\* LabelType::as_bytes
LabelTypeAsBytes(ty) ==
    IF ty.kind = "Continuous" THEN <<10, ty.width, 0>>
    ELSE <<11, ty.width, ty.length>>

NoLabel ==
    [ty |-> NoMediaLoaded, printable_dots_width |-> 0,
     has_length |-> FALSE, printable_dots_length |-> 0,
     margin_dots_right |-> 0, margin_dots_length |-> 0]

\* the rows of the geometry tables: <<printable width, printable length
\* (<<>> for None, <<n>> for Some(n)), right margin on a wide model, right
\* margin on the others>>; <<>> when the media is not in the table
\* mutant: a continuous roll with a bounded printable length
ContinuousRow_Bounded(width) ==
    CASE width = 12  -> <<106, <<>>, 74, 29>>
      [] width = 29  -> <<306, <<>>, 50, 6>>
      [] width = 38  -> <<413, <<>>, 56, 12>>
      [] width = 50  -> <<554, <<>>, 56, 12>>
      [] width = 54  -> <<590, <<>>, 44, 0>>
      [] width = 62  -> <<696, <<271>>, 56, 12>>
      [] width = 102 -> <<1164, <<>>, 56, 56>>
      [] OTHER       -> <<>>

ContinuousRow(width) ==
    CASE width = 12  -> <<106, <<>>, 74, 29>>
      [] width = 29  -> <<306, <<>>, 50, 6>>
      [] width = 38  -> <<413, <<>>, 56, 12>>
      [] width = 50  -> <<554, <<>>, 56, 12>>
      [] width = 54  -> <<590, <<>>, 44, 0>>
      [] width = 62  -> <<696, <<>>, 56, 12>>
      [] width = 102 -> <<1164, <<>>, 56, 56>>
      [] OTHER       -> <<>>

DieCutRow(width, length) ==
    CASE width = 17  /\ length = 54  -> <<165, <<566>>, 44, 0>>
      [] width = 17  /\ length = 87  -> <<165, <<956>>, 44, 0>>
      [] width = 23  /\ length = 23  -> <<236, <<202>>, 84, 42>>
      [] width = 29  /\ length = 90  -> <<306, <<991>>, 50, 6>>
      [] width = 38  /\ length = 90  -> <<413, <<991>>, 56, 12>>
      [] width = 39  /\ length = 48  -> <<425, <<495>>, 50, 6>>
      [] width = 52  /\ length = 29  -> <<578, <<271>>, 44, 0>>
      [] width = 62  /\ length = 29  -> <<696, <<271>>, 56, 12>>
      [] width = 62  /\ length = 100 -> <<696, <<1109>>, 56, 12>>
      [] width = 102 /\ length = 51  -> <<1164, <<526>>, 56, 56>>
      [] width = 102 /\ length = 152 -> <<1164, <<1660>>, 56, 56>>
      [] OTHER                       -> <<>>

\* Label::try_from((model, ty)), label.rs 59-133
LabelTryFrom(m, ty) ==
    LET row == IF ty.kind = "Continuous" THEN ContinuousRow(ty.width)
               ELSE DieCutRow(ty.width, ty.length)
    IN IF row = <<>> THEN [ok |-> FALSE, label |-> NoLabel]
       ELSE [ok |-> TRUE,
             label |->
               [ty |-> ty,
                printable_dots_width |-> row[1],
                has_length |-> row[2] # <<>>,
                printable_dots_length |-> IF row[2] = <<>> THEN 0 ELSE row[2][1],
                margin_dots_right |-> IF IsWide(m) THEN row[3] ELSE row[4],
                margin_dots_length |-> IF ty.kind = "Continuous" THEN 35 ELSE 0]]

(***************************************************************************)
(* The status codec (printer/status.rs)                                    *)
(***************************************************************************)
\* the bits ErrorFlags defines (status.rs 38-54)
ErrorFlagBits == {1, 2, 4, 16, 128, 1024, 4096, 16384, 32768}

\* bit `flag` (a power of two) of `bits` is set
BitSet(bits, flag) == (bits \div flag) % 2 = 1

RECURSIVE SumOf(_)
SumOf(S) == IF S = {} THEN 0
            ELSE LET x == CHOOSE y \in S : TRUE IN x + SumOf(S \ {x})

\* ErrorFlags::from_bits_truncate: bits that name no flag are dropped
FromBitsTruncate(bits) == SumOf({f \in ErrorFlagBits : BitSet(bits, f)})

\* u16::from_le_bytes([lo, hi])
U16FromLeBytes(lo, hi) == lo + 256 * hi

\* mutant: an undocumented status type loses its byte
StatusTypeFrom_DropsByte(b) ==
    CASE b = 0 -> [name |-> "StatusReply", byte |-> 0]
      [] b = 1 -> [name |-> "PrintingCompleted", byte |-> 0]
      [] b = 2 -> [name |-> "ErrorOccurred", byte |-> 0]
      [] b = 5 -> [name |-> "Notification", byte |-> 0]
      [] b = 6 -> [name |-> "PhaseChange", byte |-> 0]
      [] OTHER -> [name |-> "Unknown", byte |-> 0]

\* StatusType::from, PhaseType::from, Notification::from_byte
StatusTypeFrom(b) ==
    CASE b = 0 -> [name |-> "StatusReply", byte |-> 0]
      [] b = 1 -> [name |-> "PrintingCompleted", byte |-> 0]
      [] b = 2 -> [name |-> "ErrorOccurred", byte |-> 0]
      [] b = 5 -> [name |-> "Notification", byte |-> 0]
      [] b = 6 -> [name |-> "PhaseChange", byte |-> 0]
      [] OTHER -> [name |-> "Unknown", byte |-> b]

PhaseTypeFrom(b) ==
    CASE b = 0 -> [name |-> "Waiting", byte |-> 0]
      [] b = 1 -> [name |-> "Printing", byte |-> 0]
      [] OTHER -> [name |-> "Unknown", byte |-> b]

NotificationFromByte(b) ==
    CASE b = 0 -> [name |-> "None", byte |-> 0]
      [] b = 3 -> [name |-> "CoolingStart", byte |-> 0]
      [] b = 4 -> [name |-> "CoolingFinish", byte |-> 0]
      [] OTHER -> [name |-> "Unknown", byte |-> b]

NoStatus ==
    [error_flags |-> 0, has_label |-> FALSE, label |-> NoLabel,
     status_type |-> StatusTypeFrom(0), phase_type |-> PhaseTypeFrom(0),
     notification |-> NotificationFromByte(0)]

StatusErr(e, n) == [ok |-> FALSE, err |-> e, arg |-> n, status |-> NoStatus]
StatusOk(st)    == [ok |-> TRUE, err |-> "", arg |-> 0, status |-> st]

\* mutant: the size byte of the header is checked before the head mark
DecodeStatus_HeaderSizeFirst(m, read_bytes, data) ==
    IF read_bytes # 32 THEN StatusErr("WrongResponseSizeUSB", read_bytes)
    ELSE IF data[2] # 32 THEN StatusErr("WrongResponseSizeHeader", data[2])
    ELSE IF data[1] # 128 THEN StatusErr("WrongPrintHeadMark", data[1])
    ELSE
      LET media == MediaFromBytes(data[12], data[11], data[18])
          l     == LabelTryFrom(m, media)
      IN IF media # NoMediaLoaded /\ ~l.ok THEN StatusErr("InvalidLabel", 0)
         ELSE StatusOk(
                [error_flags  |-> FromBitsTruncate(U16FromLeBytes(data[9], data[10])),
                 has_label    |-> media # NoMediaLoaded,
                 label        |-> IF media # NoMediaLoaded THEN l.label ELSE NoLabel,
                 status_type  |-> StatusTypeFrom(data[19]),
                 phase_type   |-> PhaseTypeFrom(data[20]),
                 notification |-> NotificationFromByte(data[23])])

\* Printer::read_status_response after the bulk read returned Ok(read_bytes):
\* data[k] of the code is data[k + 1] here (status.rs 174-201)
DecodeStatus(m, read_bytes, data) ==
    IF read_bytes # 32 THEN StatusErr("WrongResponseSizeUSB", read_bytes)
    ELSE IF data[1] # 128 THEN StatusErr("WrongPrintHeadMark", data[1])
    ELSE IF data[2] # 32 THEN StatusErr("WrongResponseSizeHeader", data[2])
    ELSE
      LET media == MediaFromBytes(data[12], data[11], data[18])
          l     == LabelTryFrom(m, media)
      IN IF media # NoMediaLoaded /\ ~l.ok THEN StatusErr("InvalidLabel", 0)
         ELSE StatusOk(
                [error_flags  |-> FromBitsTruncate(U16FromLeBytes(data[9], data[10])),
                 has_label    |-> media # NoMediaLoaded,
                 label        |-> IF media # NoMediaLoaded THEN l.label ELSE NoLabel,
                 status_type  |-> StatusTypeFrom(data[19]),
                 phase_type   |-> PhaseTypeFrom(data[20]),
                 notification |-> NotificationFromByte(data[23])])

(***************************************************************************)
(* State                                                                   *)
(***************************************************************************)
VARIABLES
    \* ---- scale engine (struct Scales and its worker thread) ----
    kind,            \* "serial" (on_serial_port) or "emulated" (emulated)
    port_script,     \* environment: "any" device behaviour, or "scripted"
    pc,              \* position of the worker thread
    site,            \* which guard.wait / guard.check call the worker is in
    should_exit,     \* Guard.0: the cancellation flag
    guard_lock,      \* holder of the Guard's mutex
    cv_waiting,      \* the worker is parked on the Guard's condition variable
    weight,          \* contents of Mutex<WeightResult>
    weight_lock,     \* holder of the reading's mutex
    port,            \* the Box<dyn SerialPort> owned by the worker
    weight_response, \* perform_io's 45-byte buffer after a successful read
    pub_val,         \* the value of the assignment `*weight.lock() = ...` in progress
    pub_ret,         \* what the worker does after that assignment
    fake_weight,     \* runloop_emulated's local
    owner,           \* position of the thread that owns the Scales value
    ret,             \* the value being returned by weight()
    runloop_handle,  \* Scales::runloop_handle: "Some" until drop takes it
    \* ---- history (not program state) ----
    published,       \* the last reading the worker finished storing
    last_op,         \* the last device operation of the worker and its outcome
    cancel_at        \* the worker's position when the flag was set

scaleVars ==
    <<kind, port_script, pc, site, should_exit, guard_lock, cv_waiting, weight,
      weight_lock, port, weight_response, pub_val, pub_ret, fake_weight, owner,
      ret, runloop_handle, published, last_op, cancel_at>>

VARIABLES
    \* ---- printer session (struct Printer) and a print call in progress ----
    model,           \* Printer::model
    print_config,    \* Printer::print_config
    image,           \* the image handed to print()
    pr_pc,           \* position of the caller inside print()
    status_data,     \* the bytes the status read returned
    status,          \* print's local `status` once the frame has decoded
    written,         \* the commands print() has written to the device, in order,
                     \*   raster lines excepted
    lines_sent,      \* number of raster lines written
    last_line,       \* the raster line written last
    pr_result        \* what print() returned

printVars ==
    <<model, print_config, image, pr_pc, status_data, status, written,
      lines_sent, last_line, pr_result>>

VARIABLES
    \* ---- attaching a printer (ui reconnect_printer, Printer::attach) ----
    devices,         \* environment: the USB devices in enumeration order
    printer_model,   \* the configured model name (db.info().printer_model)
    model_filter,    \* attach's argument: a model, or "None"
    at_pc,           \* position of the caller inside reconnect_printer / attach
    at_idx,          \* the device find_map is looking at
    at_result,       \* what the call returned
    opened,          \* history: the devices device.open() was called on
    released         \* history: the last reconnect_printer dropped a session

attachVars ==
    <<devices, printer_model, model_filter, at_pc, at_idx, at_result, opened,
      released>>

VARIABLES
    \* ---- the database (struct Database and the file behind it) ----
    products,        \* Database::products, the in-memory list
    db_tables,       \* environment: the tables the database file has
    db_rows,         \* the product rows of the file, by table name
    sales,           \* the rows of table sales, in insertion order
    db_result        \* what the last call on the product list returned

dbVars == <<products, db_tables, db_rows, sales, db_result>>

VARIABLES
    \* ---- the user interface (struct App) ----
    focus,           \* App::focus
    popup,           \* App::popup
    product_idx,     \* product_list_state.selected()
    action_idx,      \* action_list_state.selected()
    dialog_idx,      \* dialog_list_state.selected()
    dump_voucher,    \* App::dump_voucher
    ui_pc,           \* position of the main thread inside run_in_terminal
    job,             \* perform_action's locals: the dialog taken from popup
    should_retry,    \* print_voucher's argument in the innermost call
    reconnects,      \* history: reconnect_printer calls of this print_voucher
    print_attempts,  \* history: printer.print calls of this print_voucher
    print_outcome,   \* history: how the last voucher print of the job ended
    ui_exit          \* how run_in_terminal ended, "running" before

uiVars ==
    <<focus, popup, product_idx, action_idx, dialog_idx, dump_voucher, ui_pc,
      job, should_retry, reconnects, print_attempts, print_outcome, ui_exit>>

appVars == <<dbVars, uiVars>>

vars == <<scaleVars, printVars, attachVars, appVars>>

(***************************************************************************)
(* Guard (weight/mod.rs 56-101)                                            *)
(***************************************************************************)
\* mutant: a guard that is born cancelled
GuardDefault_Set == TRUE

\* Guard::default: the flag of a new guard
GuardDefault == FALSE

\* mutant: the remaining time is looked at before the condition
WaitTimeoutWhile_TimeoutFirst(flag, elapsed) ==
    IF elapsed THEN "timed_out"
    ELSE IF flag THEN "done"
    ELSE "park"

\* Condvar::wait_timeout_while(guard, dur, |&mut should_exit| !should_exit):
\* on entry and after every wake-up, with the mutex held, first the condition,
\* then the remaining time.
WaitTimeoutWhile(flag, elapsed) ==
    IF flag THEN "done"              \* condition false: return, timed_out() = false
    ELSE IF elapsed THEN "timed_out" \* return, timed_out() = true
    ELSE "park"                      \* wait_timeout: release the mutex and sleep

\* mutant: the test of timed_out() inverted
GuardWaitResult_Inverted(timed_out) == IF timed_out THEN "AwakeError" ELSE "Ok"

\* Guard::wait, lines 73-79
GuardWaitResult(timed_out) == IF timed_out THEN "Ok" ELSE "AwakeError"

\* Guard::check, lines 83-89
GuardCheckResult(flag) == IF flag THEN "AwakeError" ELSE "Ok"

(***************************************************************************)
(* Construction: Scales::on_serial_port / Scales::emulated                 *)
(***************************************************************************)
NoOp == [op |-> "none", ok |-> TRUE, err |-> ""]
NotCancelled == [pc |-> "-", site |-> "-"]

\* runloop_emulated: let mut fake_weight = 42.0  (tenths, rounding excess)
FakeWeightInit == [tenths |-> 420, ulp5 |-> 0]

ScalesInit ==
    /\ kind \in {"serial", "emulated"}
    /\ port_script \in (IF kind = "serial" THEN {"any", "scripted"} ELSE {"any"})
    /\ pc = (IF kind = "serial" THEN "open" ELSE "emul_publish")
    /\ site = "none"
    /\ should_exit = GuardDefault
    /\ guard_lock = "none"
    /\ cv_waiting = FALSE
    /\ weight = NotOpenedYet
    /\ weight_lock = "none"
    /\ port = "none"
    /\ weight_response = NoResponse
    /\ pub_val = NoValue
    /\ pub_ret = "none"
    /\ fake_weight = FakeWeightInit
    /\ owner = "idle"
    /\ ret = NoValue
    /\ runloop_handle = "Some"
    /\ published = NotOpenedYet
    /\ last_op = NoOp
    /\ cancel_at = NotCancelled

constVars == <<kind, port_script>>
guardVars == <<should_exit, guard_lock, cv_waiting>>
ownerVars == <<owner, ret, runloop_handle, cancel_at>>

(***************************************************************************)
(* The worker thread: publishing a reading                                 *)
(*   *weight.lock().unwrap() = value;                                      *)
(* The temporary MutexGuard lives for this one statement.  The store of    *)
(* the multi-word Result is modelled in two steps (discriminant, payload)  *)
(* so that an unsynchronised reader could see a mixture.                   *)
(***************************************************************************)
StartPublish(val, then) ==
    /\ pub_val' = val
    /\ pub_ret' = then
    /\ pc' = "pub_lock"

PubLock ==
    /\ pc = "pub_lock"
    /\ weight_lock = "none"
    /\ weight_lock' = "worker"
    /\ pc' = "pub_tag"
    /\ UNCHANGED <<appVars, attachVars, printVars, constVars, guardVars, ownerVars, site, weight, port,
                   weight_response, pub_val, pub_ret, fake_weight, published,
                   last_op>>

PubStoreTag ==
    /\ pc = "pub_tag"
    /\ weight' = [weight EXCEPT !.tag = pub_val.tag]
    /\ pc' = "pub_store"
    /\ UNCHANGED <<appVars, attachVars, printVars, constVars, guardVars, ownerVars, site, weight_lock, port,
                   weight_response, pub_val, pub_ret, fake_weight, published,
                   last_op>>

\* the rest of the store and the statement that follows; lock_after is the
\* holder of the mutex once the assignment statement has ended
PubStoreWith(lock_after) ==
    /\ pc = "pub_store"
    /\ weight' = pub_val
    /\ published' = pub_val
    /\ weight_lock' = lock_after
    /\ pub_val' = NoValue
    /\ pub_ret' = "none"
    /\ weight_response' = NoResponse    \* the buffer is a local of the iteration
    /\ CASE pub_ret = "backoff"   -> pc' = "wait_lock" /\ site' = "backoff"
                                     /\ UNCHANGED port
         [] pub_ret = "iter_wait" -> pc' = "wait_lock" /\ site' = "iter"
                                     /\ UNCHANGED port
         [] pub_ret = "emul_wait" -> pc' = "wait_lock" /\ site' = "emul"
                                     /\ UNCHANGED port
         \* return Ok(()) from perform_io: the port is dropped, runloop loops
         [] pub_ret = "runloop"   -> pc' = "open" /\ site' = "none"
                                     /\ port' = "none"
    /\ UNCHANGED <<appVars, attachVars, printVars, constVars, guardVars, ownerVars, fake_weight, last_op>>

\* mutant: the MutexGuard is bound to a local and outlives the statement
PubStore_KeepsLock == PubStoreWith("worker")

\* `*weight.lock().unwrap() = ...;` the temporary guard is dropped at the end
\* of the statement
PubStore == PubStoreWith("none")

(***************************************************************************)
(* The worker thread: open_port (lines 174-201)                            *)
(***************************************************************************)
OpenPortOk ==
    /\ pc = "open"
    /\ port' = "open"
    /\ last_op' = [op |-> "open", ok |-> TRUE, err |-> ""]
    /\ pc' = "write_info"
    /\ UNCHANGED <<appVars, attachVars, printVars, constVars, guardVars, ownerVars, site, weight, weight_lock,
                   weight_response, pub_val, pub_ret, fake_weight, published>>

OpenPortErr ==
    /\ pc = "open"
    /\ port_script = "any"
    /\ \E e \in OpenErrors :
          /\ StartPublish(ErrSerialPort(e), "backoff")
          /\ last_op' = [op |-> "open", ok |-> FALSE, err |-> e]
    /\ UNCHANGED <<appVars, attachVars, printVars, constVars, guardVars, ownerVars, site, weight, weight_lock,
                   port, weight_response, fake_weight, published>>

(***************************************************************************)
(* The worker thread: Guard::wait (lines 62-80)                            *)
(***************************************************************************)
\* where the worker continues when guard.wait returned Ok(())
AfterWait(s) ==
    CASE s = "backoff" -> "open"          \* open_port: loop, try again
      [] s = "iter"    -> "write_info"    \* perform_io: next iteration
      [] s = "emul"    -> "emul_vary"     \* runloop_emulated: vary the value

\* `?` on the result; an AwakeError leaves runloop and ends the thread,
\* dropping the port if perform_io holds one
WaitReturn(result) ==
    IF result = "AwakeError"
    THEN pc' = "exited" /\ port' = "none"
    ELSE pc' = AfterWait(site) /\ UNCHANGED port

WaitLock ==
    /\ pc = "wait_lock"
    /\ guard_lock = "none"
    /\ guard_lock' = "worker"
    /\ pc' = "wait_cond"
    /\ UNCHANGED <<appVars, attachVars, printVars, constVars, ownerVars, site, should_exit, cv_waiting, weight,
                   weight_lock, port, weight_response, pub_val, pub_ret,
                   fake_weight, published, last_op>>

WaitStep(elapsed) ==
    /\ pc = "wait_cond"
    /\ guard_lock' = "none"
    /\ LET o == WaitTimeoutWhile(should_exit, elapsed)
       IN IF o = "park"
          THEN /\ cv_waiting' = TRUE
               /\ pc' = "wait_parked"
               /\ UNCHANGED <<site, port>>
          ELSE /\ WaitReturn(GuardWaitResult(o = "timed_out"))
               /\ site' = "none"
               /\ UNCHANGED cv_waiting
    /\ UNCHANGED <<appVars, attachVars, printVars, constVars, ownerVars, should_exit, weight, weight_lock,
                   weight_response, pub_val, pub_ret, fake_weight, published,
                   last_op>>

\* the condition is evaluated with time left on the clock
WaitCheck == WaitStep(FALSE)

\* the condition is evaluated after the timeout has run out
WaitCheckElapsed == WaitStep(TRUE)

\* the parked thread wakes up by itself: timeout or spurious wake-up
WaitWakeup ==
    /\ pc = "wait_parked"
    /\ cv_waiting
    /\ cv_waiting' = FALSE
    /\ UNCHANGED <<appVars, attachVars, printVars, constVars, ownerVars, pc, site, should_exit, guard_lock,
                   weight, weight_lock, port, weight_response, pub_val, pub_ret,
                   fake_weight, published, last_op>>

\* a woken thread takes the mutex again before wait_timeout returns
WaitRelock ==
    /\ pc = "wait_parked"
    /\ ~cv_waiting
    /\ guard_lock = "none"
    /\ guard_lock' = "worker"
    /\ pc' = "wait_cond"
    /\ UNCHANGED <<appVars, attachVars, printVars, constVars, ownerVars, site, should_exit, cv_waiting, weight,
                   weight_lock, port, weight_response, pub_val, pub_ret,
                   fake_weight, published, last_op>>

(***************************************************************************)
(* The worker thread: Guard::check (lines 83-89)                           *)
(***************************************************************************)
\* mutant: the weight request follows the info request at once
AfterCheck_SkipsInfoRead(s) ==
    CASE s = "chk1" -> "write_weight"
      [] s = "chk2" -> "write_weight"
      [] s = "chk3" -> "read_weight"
      [] s = "chk4" -> "parse"

AfterCheck(s) ==
    CASE s = "chk1" -> "read_info"
      [] s = "chk2" -> "write_weight"
      [] s = "chk3" -> "read_weight"
      [] s = "chk4" -> "parse"

CheckLock ==
    /\ pc = "chk_lock"
    /\ guard_lock = "none"
    /\ guard_lock' = "worker"
    /\ pc' = "chk_read"
    /\ UNCHANGED <<appVars, attachVars, printVars, constVars, ownerVars, site, should_exit, cv_waiting, weight,
                   weight_lock, port, weight_response, pub_val, pub_ret,
                   fake_weight, published, last_op>>

CheckRead ==
    /\ pc = "chk_read"
    /\ guard_lock' = "none"
    /\ IF GuardCheckResult(should_exit) = "AwakeError"
       THEN pc' = "exited" /\ port' = "none"
       ELSE pc' = AfterCheck(site) /\ UNCHANGED port
    /\ site' = "none"
    /\ UNCHANGED <<appVars, attachVars, printVars, constVars, ownerVars, should_exit, cv_waiting, weight,
                   weight_lock, weight_response, pub_val, pub_ret, fake_weight,
                   published, last_op>>

(***************************************************************************)
(* The worker thread: perform_io (lines 203-282)                           *)
(***************************************************************************)
\* mutant: a failed step is followed by the backoff wait
IOFailThen_Backoff(step) == "backoff"

\* mutant: a failed step is followed by the next iteration on the same port
IOFailThen_KeepsPort(step) == "iter_wait"

\* after a failed step: `return Ok(())`, back to runloop's loop
IOFailThen(step) == "runloop"

\* the port layer's answer to a read of 45 bytes that succeeds
PortAnswers ==
    IF port_script = "scripted" THEN {ScriptedResponse} ELSE EngineResponses

\* one write_all / read_exact on the open port, and the guard.check() that
\* follows it when it succeeded
IOStep(step, chk, answers) ==
    /\ pc = step
    /\ port = "open"
    /\ \/ /\ \E r \in answers : weight_response' = r
          /\ last_op' = [op |-> step, ok |-> TRUE, err |-> ""]
          /\ pc' = "chk_lock"
          /\ site' = chk
          /\ UNCHANGED <<pub_val, pub_ret>>
       \/ /\ port_script = "any"
          /\ \E e \in IOErrors :
                /\ StartPublish(ErrIO(e), IOFailThen(step))
                /\ last_op' = [op |-> step, ok |-> FALSE, err |-> e]
          /\ UNCHANGED <<site, weight_response>>
    /\ UNCHANGED <<appVars, attachVars, printVars, constVars, guardVars, ownerVars, weight, weight_lock, port,
                   fake_weight, published>>

\* port.write_all(&[0x04, 0x05])
WriteInfo == IOStep("write_info", "chk1", {weight_response})

\* port.read_exact(&mut info_response), 1 byte
ReadInfo == IOStep("read_info", "chk2", {weight_response})

\* port.write_all(&[0x13])
WriteWeight == IOStep("write_weight", "chk3", {weight_response})

\* port.read_exact(&mut weight_response), 45 bytes
ReadWeight == IOStep("read_weight", "chk4", PortAnswers)

\* lines 245-276: decode the response and publish the outcome; a success is
\* followed by the 1 ms wait, a parse failure by `return Ok(())`
ParseResponse ==
    /\ pc = "parse"
    /\ LET r == Decoded[weight_response]
       IN StartPublish(r, IF r.tag = "Ok" THEN "iter_wait" ELSE "runloop")
    /\ UNCHANGED <<appVars, attachVars, printVars, constVars, guardVars, ownerVars, site, weight, weight_lock,
                   port, weight_response, fake_weight, published, last_op>>

(***************************************************************************)
(* The worker thread: runloop_emulated (lines 284-301)                     *)
(*                                                                         *)
(* fake_weight is 42.0 plus n additions of the double 0.1.  Between 32 and *)
(* 64 a double is a multiple of 2^-47, and 0.1 is 14073748835532.8 such    *)
(* units, so every addition rounds up by a fifth of a unit: after n        *)
(* additions the value is 42 + n/10 + (n/5) * 2^-47.                       *)
(***************************************************************************)
FakeAsF64(fw) ==
    [cls |-> "fin", neg |-> FALSE, num |-> fw.tenths, e10 |-> -1,
     ulp5 |-> fw.ulp5, text |-> ""]

\* mutant: the comparison of a sum without rounding excess (50.0 is not above)
FakeAboveCeiling_NoRounding(fw) == fw.tenths > 500

\* fake_weight > 50.0
FakeAboveCeiling(fw) == fw.tenths > 500 \/ (fw.tenths = 500 /\ fw.ulp5 > 0)

\* lines 295-299
FakeVary(fw) ==
    IF FakeAboveCeiling(fw) THEN FakeWeightInit
    ELSE [tenths |-> fw.tenths + 1, ulp5 |-> fw.ulp5 + 1]

EmulPublish ==
    /\ pc = "emul_publish"
    /\ StartPublish(OkWeight(FakeAsF64(fake_weight)), "emul_wait")
    /\ UNCHANGED <<appVars, attachVars, printVars, constVars, guardVars, ownerVars, site, weight, weight_lock,
                   port, weight_response, fake_weight, published, last_op>>

EmulVary ==
    /\ pc = "emul_vary"
    /\ fake_weight' = FakeVary(fake_weight)
    /\ pc' = "emul_publish"
    /\ UNCHANGED <<appVars, attachVars, printVars, constVars, guardVars, ownerVars, site, weight, weight_lock,
                   port, weight_response, pub_val, pub_ret, published, last_op>>

(***************************************************************************)
(* The owner thread: Scales::weight (lines 152-154)                        *)
(*   self.weight.lock().unwrap().clone()                                   *)
(***************************************************************************)
\* mutant: weight() clones the reading without taking the mutex
WeightLock_Unlocked ==
    /\ owner = "idle"
    /\ owner' = "weight_clone"
    /\ UNCHANGED <<appVars, attachVars, printVars, constVars, guardVars, pc, site, weight, weight_lock, port,
                   weight_response, pub_val, pub_ret, fake_weight, ret,
                   runloop_handle, published, last_op, cancel_at>>

WeightLock ==
    /\ owner = "idle"
    /\ weight_lock = "none"
    /\ weight_lock' = "owner"
    /\ owner' = "weight_clone"
    /\ UNCHANGED <<appVars, attachVars, printVars, constVars, guardVars, pc, site, weight, port,
                   weight_response, pub_val, pub_ret, fake_weight, ret,
                   runloop_handle, published, last_op, cancel_at>>

WeightClone ==
    /\ owner = "weight_clone"
    /\ ret' = weight
    /\ owner' = "weight_return"
    /\ UNCHANGED <<appVars, attachVars, printVars, constVars, guardVars, pc, site, weight, weight_lock, port,
                   weight_response, pub_val, pub_ret, fake_weight,
                   runloop_handle, published, last_op, cancel_at>>

WeightReturn ==
    /\ owner = "weight_return"
    /\ weight_lock' = "none"
    /\ ret' = NoValue
    /\ owner' = "idle"
    /\ UNCHANGED <<appVars, attachVars, printVars, constVars, guardVars, pc, site, weight, port,
                   weight_response, pub_val, pub_ret, fake_weight,
                   runloop_handle, published, last_op, cancel_at>>

(***************************************************************************)
(* The owner thread: Drop for Scales (lines 304-310), Guard::cancel 91-94  *)
(***************************************************************************)
\* cancel(): self.0.lock()
CancelLock ==
    /\ owner = "idle"
    /\ guard_lock = "none"
    /\ guard_lock' = "owner"
    /\ owner' = "cancel_set"
    /\ UNCHANGED <<appVars, attachVars, printVars, constVars, pc, site, should_exit, cv_waiting, weight,
                   weight_lock, port, weight_response, pub_val, pub_ret,
                   fake_weight, ret, runloop_handle, published, last_op,
                   cancel_at>>

\* cancel(): *guard = true; the temporary guard is dropped
CancelSet ==
    /\ owner = "cancel_set"
    /\ should_exit' = TRUE
    /\ guard_lock' = "none"
    /\ cancel_at' = [pc |-> pc, site |-> site]
    /\ owner' = "cancel_notify"
    /\ UNCHANGED <<appVars, attachVars, printVars, constVars, pc, site, cv_waiting, weight, weight_lock, port,
                   weight_response, pub_val, pub_ret, fake_weight, ret,
                   runloop_handle, published, last_op>>

\* mutant: cancel() sets the flag and forgets to notify
CancelNotify_Forgotten ==
    /\ owner = "cancel_notify"
    /\ owner' = "join"
    /\ UNCHANGED <<appVars, attachVars, printVars, constVars, pc, site, should_exit, guard_lock, cv_waiting,
                   weight, weight_lock, port, weight_response, pub_val, pub_ret,
                   fake_weight, ret, runloop_handle, published, last_op,
                   cancel_at>>

\* cancel(): self.1.notify_one() wakes the parked worker, if there is one
CancelNotify ==
    /\ owner = "cancel_notify"
    /\ cv_waiting' = FALSE
    /\ owner' = "join"
    /\ UNCHANGED <<appVars, attachVars, printVars, constVars, pc, site, should_exit, guard_lock, weight,
                   weight_lock, port, weight_response, pub_val, pub_ret,
                   fake_weight, ret, runloop_handle, published, last_op,
                   cancel_at>>

\* mutant: drop starts the worker again after the join
Join_Respawns ==
    /\ owner = "join"
    /\ pc = "exited"
    /\ runloop_handle' = "None"
    /\ owner' = "dropped"
    /\ pc' = (IF kind = "serial" THEN "open" ELSE "emul_publish")
    /\ UNCHANGED <<appVars, attachVars, printVars, constVars, guardVars, site, weight, weight_lock, port,
                   weight_response, pub_val, pub_ret, fake_weight, ret,
                   published, last_op, cancel_at>>

\* runloop_handle.take().unwrap().join() returns once the worker thread has
\* ended; then drop returns
Join ==
    /\ owner = "join"
    /\ pc = "exited"
    /\ runloop_handle' = "None"
    /\ owner' = "dropped"
    /\ UNCHANGED <<appVars, attachVars, printVars, constVars, guardVars, pc, site, weight, weight_lock, port,
                   weight_response, pub_val, pub_ret, fake_weight, ret,
                   published, last_op, cancel_at>>

(***************************************************************************)
(* The print job (printer/print.rs)                                        *)
(***************************************************************************)
\* impl Default for PrintConfig
PrintConfigDefault ==
    [priority |-> "Quality", auto_cut |-> TRUE, high_res |-> FALSE,
     invert |-> FALSE]

\* a GrayImage: its dimensions and a rule giving every pixel's luma
NoImage == [width |-> 0, height |-> 0, luma |-> "white"]

Luma(img, x, y) ==
    CASE img.luma = "white" -> 255
      [] img.luma = "black" -> 0
      [] img.luma = "threshold" -> IF (x + y) % 2 = 0 THEN 127 ELSE 128

\* mutant: the inversion flag is not applied
PixelBit_NoInvert(img, x, y, invert) == Luma(img, x, y) < 128

\* print.rs 260: (p.0[0] < 0x80) != invert
PixelBit(img, x, y, invert) == (Luma(img, x, y) < 128) # invert

\* the commands of a job
StatusRequestCmd == <<27, 105, 83>>
RasterModeCmd    == <<27, 105, 97, 1>>
AutoCutCmd       == <<27, 105, 65, 1>>
CompressionCmd   == <<77, 0>>
CommitCmd        == <<26>>

\* print.rs 176-183
PrintInfoFlags(cfg) == 2 + 4 + 8 + 128 + (IF cfg.priority = "Quality" THEN 64 ELSE 0)

\* print.rs 186-203; the row count is image.height() as four bytes, low first
PrintInfoCmd(cfg, label, img) ==
    <<27, 105, 122, PrintInfoFlags(cfg)>>
    \o LabelTypeAsBytes(label.ty)
    \o <<img.height % 256, (img.height \div 256) % 256,
         (img.height \div 65536) % 256, (img.height \div 16777216) % 256>>
    \o <<0, 0>>

\* mutant: the auto-cut bit follows the priority
PrintModeCmd_CutWithQuality(cfg) ==
    <<27, 105, 77, IF cfg.priority = "Quality" THEN 64 ELSE 0>>

\* print.rs 206-212
PrintModeCmd(cfg) == <<27, 105, 77, IF cfg.auto_cut THEN 64 ELSE 0>>

\* print.rs 221-227
ExpandedModeCmd(cfg) == <<27, 105, 75, 16 + (IF cfg.high_res THEN 64 ELSE 0)>>

\* print.rs 230-231
FeedMarginCmd(label) ==
    <<27, 105, 100, label.margin_dots_length % 256,
      label.margin_dots_length \div 256>>

\* mutant: the row's pixels are taken from left to right
RasterBit_LeftToRight(img, y, label, invert, n) ==
    IF n < label.margin_dots_right THEN 0
    ELSE IF n < label.margin_dots_right + img.width
         THEN IF PixelBit(img, n - label.margin_dots_right, y, invert)
              THEN 1 ELSE 0
    ELSE 0

\* bit n (from 0, most significant bit of the first byte first) of a line's
\* payload: the right margin, then the row's pixels from right to left
RasterBit(img, y, label, invert, n) ==
    IF n < label.margin_dots_right THEN 0
    ELSE IF n < label.margin_dots_right + img.width
         THEN IF PixelBit(img, img.width - 1 - (n - label.margin_dots_right),
                          y, invert)
              THEN 1 ELSE 0
    ELSE 0

\* BitWriter::write_bit indexes past the line buffer: the job panics
LineOverflows(m, label, img) ==
    label.margin_dots_right + img.width > 8 * LineWidth(m)

\* print.rs 238-266: the line command of row y
LineCommand(m, cfg, label, img, y) ==
    <<103, 0, LineWidth(m)>>
    \o [k \in 1..LineWidth(m) |->
          128 * RasterBit(img, y, label, cfg.invert, 8 * (k - 1))
          + 64 * RasterBit(img, y, label, cfg.invert, 8 * (k - 1) + 1)
          + 32 * RasterBit(img, y, label, cfg.invert, 8 * (k - 1) + 2)
          + 16 * RasterBit(img, y, label, cfg.invert, 8 * (k - 1) + 3)
          + 8 * RasterBit(img, y, label, cfg.invert, 8 * (k - 1) + 4)
          + 4 * RasterBit(img, y, label, cfg.invert, 8 * (k - 1) + 5)
          + 2 * RasterBit(img, y, label, cfg.invert, 8 * (k - 1) + 6)
          + RasterBit(img, y, label, cfg.invert, 8 * (k - 1) + 7)]

\* print's return values
PrintResult(tag) ==
    [tag |-> tag, flags |-> 0, inner |-> "", image_width |-> 0,
     image_height |-> 0, label_width |-> 0, has_label_length |-> FALSE,
     label_length |-> 0]
NoResult == PrintResult("-")
PrintOk  == PrintResult("Ok")
PrintUSBError == PrintResult("USBError")
PrintPanic == PrintResult("panic")

\* mutant: high resolution does not double the length
LabelLength_NoHighRes(cfg, label) == label.printable_dots_length

\* print.rs 155-158
LabelLength(cfg, label) ==
    IF cfg.high_res THEN 2 * label.printable_dots_length
    ELSE label.printable_dots_length

\* print.rs 163
WrongDimensions(cfg, label, img) ==
    \/ label.printable_dots_width # img.width
    \/ label.has_length /\ LabelLength(cfg, label) # img.height

\* mutant: the no-media check comes before the error-flag check
Preflight_MediaFirst(cfg, img, r) ==
    IF ~r.ok THEN [PrintResult("StatusError") EXCEPT !.inner = r.err]
    ELSE IF ~r.status.has_label THEN PrintResult("NoMedia")
    ELSE IF r.status.error_flags # 0
         THEN [PrintResult("StatusErrorFlags") EXCEPT
                 !.flags = r.status.error_flags]
    ELSE IF WrongDimensions(cfg, r.status.label, img)
         THEN [PrintResult("WrongImageDimensions") EXCEPT
                 !.image_width = img.width,
                 !.image_height = img.height,
                 !.label_width = r.status.label.printable_dots_width,
                 !.has_label_length = r.status.label.has_length,
                 !.label_length = LabelLength(cfg, r.status.label)]
    ELSE PrintOk

\* mutant: the dimensions of the image are not checked
Preflight_SkipsDimensions(cfg, img, r) ==
    IF ~r.ok THEN [PrintResult("StatusError") EXCEPT !.inner = r.err]
    ELSE IF r.status.error_flags # 0
         THEN [PrintResult("StatusErrorFlags") EXCEPT
                 !.flags = r.status.error_flags]
    ELSE IF ~r.status.has_label THEN PrintResult("NoMedia")
    ELSE PrintOk

\* print.rs 143-170 once the status read has returned `r`: the error print
\* returns, or PrintOk when the job goes on
Preflight(cfg, img, r) ==
    IF ~r.ok THEN [PrintResult("StatusError") EXCEPT !.inner = r.err]
    ELSE IF r.status.error_flags # 0
         THEN [PrintResult("StatusErrorFlags") EXCEPT
                 !.flags = r.status.error_flags]
    ELSE IF ~r.status.has_label THEN PrintResult("NoMedia")
    ELSE IF WrongDimensions(cfg, r.status.label, img)
         THEN [PrintResult("WrongImageDimensions") EXCEPT
                 !.image_width = img.width,
                 !.image_height = img.height,
                 !.label_width = r.status.label.printable_dots_width,
                 !.has_label_length = r.status.label.has_length,
                 !.label_length = LabelLength(cfg, r.status.label)]
    ELSE PrintOk

\* ---- what the model draws from ----
PrintModels == Models
PrintConfigs ==
    {PrintConfigDefault,
     [priority |-> "Speed", auto_cut |-> FALSE, high_res |-> TRUE,
      invert |-> TRUE],
     [priority |-> "Speed", auto_cut |-> TRUE, high_res |-> FALSE,
      invert |-> FALSE]}
Images ==
    {[width |-> 696, height |-> 2, luma |-> "threshold"],
     [width |-> 236, height |-> 202, luma |-> "black"],
     [width |-> 236, height |-> 404, luma |-> "black"],
     [width |-> 1164, height |-> 1, luma |-> "black"],
     [width |-> 100, height |-> 1, luma |-> "white"]}

\* a 32-byte status frame; the bytes the codec does not read are zero
StatusFrame(head, size, err1, err2, media, st, ph, nt) ==
    [i \in 1..32 |->
        CASE i = 1  -> head
          [] i = 2  -> size
          [] i = 9  -> err1
          [] i = 10 -> err2
          [] i = 11 -> media[2]
          [] i = 12 -> media[1]
          [] i = 18 -> media[3]
          [] i = 19 -> st
          [] i = 20 -> ph
          [] i = 23 -> nt
          [] OTHER  -> 0]

ErrInfo1Bytes == {0, 1, 8}
ErrInfo2Bytes == {0, 4}
\* <<media type, width, length>>
MediaBytes ==
    {<<10, 62, 0>>, <<11, 23, 23>>, <<0, 0, 0>>, <<10, 13, 0>>, <<10, 102, 0>>}
\* every media of the geometry tables of label.rs, and some that are in none
ContinuousWidths == {12, 29, 38, 50, 54, 62, 102}
DieCutSizes ==
    {<<17, 54>>, <<17, 87>>, <<23, 23>>, <<29, 90>>, <<38, 90>>, <<39, 48>>,
     <<52, 29>>, <<62, 29>>, <<62, 100>>, <<102, 51>>, <<102, 152>>}
TableMedia ==
    {<<10, w, 0>> : w \in ContinuousWidths}
    \cup {<<11, d[1], d[2]>> : d \in DieCutSizes}
OtherMedia ==
    {<<10, 13, 0>>, <<10, 62, 5>>, <<11, 23, 24>>, <<11, 102, 50>>,
     <<11, 62, 0>>, <<0, 0, 0>>, <<0, 62, 0>>, <<7, 62, 0>>}
\* <<status type, phase type, notification>>
StatusCodes ==
    {<<1, 1, 3>>, <<2, 0, 4>>, <<5, 1, 0>>, <<6, 0, 0>>, <<3, 2, 1>>,
     <<255, 255, 255>>, <<7, 128, 5>>}
StatusFrames ==
    {StatusFrame(128, 32, e1, e2, md, 0, 0, 0) :
        e1 \in ErrInfo1Bytes, e2 \in ErrInfo2Bytes, md \in MediaBytes}
    \cup {StatusFrame(128, 32, 0, 0, md, 0, 0, 0) :
            md \in TableMedia \cup OtherMedia}
    \cup {StatusFrame(0, 32, 1, 0, <<10, 62, 0>>, 0, 0, 0),
          StatusFrame(128, 0, 1, 0, <<10, 62, 0>>, 0, 0, 0),
          StatusFrame(0, 0, 1, 0, <<10, 62, 0>>, 0, 0, 0),
          StatusFrame(129, 33, 0, 0, <<10, 13, 0>>, 0, 0, 0)}
    \cup {StatusFrame(128, 32, 0, 0, <<0, 0, 0>>, c[1], c[2], c[3]) :
            c \in StatusCodes}
\* what a bulk read hands back: a whole frame, or the first 16 bytes of one
StatusReads ==
    StatusFrames
    \cup {SubSeq(StatusFrame(128, 32, 1, 0, <<10, 62, 0>>, 0, 0, 0), 1, 16),
          SubSeq(StatusFrame(0, 0, 1, 0, <<10, 62, 0>>, 0, 0, 0), 1, 16)}

(***************************************************************************)
(* Attaching a printer (printer/attach.rs, ui/mod.rs reconnect_printer)    *)
(***************************************************************************)
\* attach.rs line 6: 0x04f9
VENDOR_ID == 1273
\* attach.rs line 10: 0x2049
MASS_STORAGE_PRODUCT_IDS == {8265}

\* Option<Model> / Option<String> = None
NoFilter == "None"
NoName == <<"None">>

\* Result<Printer, attach::Error>
AttachOk == [tag |-> "Ok", err |-> ""]
AttachErr(e) == [tag |-> "Err", err |-> e]

\* attach.rs 137: model_filter.map_or(true, |m2| m1 == m2)
FilterAccepts(filter, m) == filter = NoFilter \/ m = filter

\* mutant: a device of any vendor is taken
SelectDeviceTest_AnyVendor(d, filter) ==
    /\ d.desc_ok
    /\ ModelTryFromU16(d.product_id).ok
    /\ FilterAccepts(filter, ModelTryFromU16(d.product_id).model)

\* the closure of find_map in select_device (attach.rs 59-93): Some for a
\* device that is selected, None for one that is passed over
SelectDeviceTest(d, filter) ==
    /\ d.desc_ok
    /\ d.vendor_id = VENDOR_ID
    /\ ModelTryFromU16(d.product_id).ok
    /\ FilterAccepts(filter, ModelTryFromU16(d.product_id).model)

\* ---- the environment: what is plugged in, what the database names ----
Device(ok, vid, pid) == [desc_ok |-> ok, vendor_id |-> vid, product_id |-> pid]
BrotherProductIds ==
    {8213, 8214, 8231, 8232, 8233, 8384, 8219, 8258, 8224, 8234,
     8265, 8212, 0, 65535}
DeviceKinds ==
    {Device(TRUE, VENDOR_ID, pid) : pid \in BrotherProductIds}
    \cup {Device(FALSE, VENDOR_ID, 8232), Device(TRUE, 1452, 8232)}
FewDeviceKinds ==
    {Device(TRUE, VENDOR_ID, 8232), Device(TRUE, VENDOR_ID, 8233),
     Device(TRUE, VENDOR_ID, 8265), Device(FALSE, VENDOR_ID, 8232)}
DeviceLists ==
    {<<>>} \cup {<<d>> : d \in DeviceKinds}
    \cup {<<d1, d2>> : d1 \in DeviceKinds, d2 \in DeviceKinds}
    \cup {<<d1, d2, d3>> : d1 \in FewDeviceKinds, d2 \in FewDeviceKinds,
                           d3 \in FewDeviceKinds}
ModelNames ==
    {NoName,
     <<"5", "7", "0">>,
     <<"5", "8", "0", "N">>,
     <<"Q", "L", "5", "8", "0", "N">>,
     <<"B", "r", "o", "t", "h", "e", "r", "Q", "L", "5", "8", "0", "N">>,
     <<"B", "r", "o", "t", "h", "e", "r", "5", "8", "0", "N">>,
     <<"q", "l", "5", "8", "0", "n">>,
     <<"b", "r", "o", "t", "h", "e", "r", "q", "l", "5", "8", "0", "n">>,
     <<"5", "8", "0", "n">>,
     <<"Q", "L", "5", "8", "0", "n">>,
     <<"B", "R", "O", "T", "H", "E", "R", "Q", "L", "5", "8", "0", "N">>,
     <<"B", "r", "o", "t", "h", "e", "r", " ", "Q", "L", "-", "5", "8", "0", "N">>,
     <<"Q", "L", "1", "0", "6", "0", "N">>,
     <<"Q", "L", "5", "9", "0">>,
     <<>>}

\* the session a successful attach() left behind; no call in progress
Attached ==
    /\ \E pid \in BrotherProductIds :
           /\ ModelTryFromU16(pid) = ModelOk(model)
           /\ devices = <<Device(TRUE, VENDOR_ID, pid)>>
    /\ printer_model = NoName
    /\ model_filter = NoFilter
    /\ at_pc = "returned"
    /\ at_idx = 1
    /\ at_result = AttachOk
    /\ opened = <<1>>
    /\ released = FALSE

\* what every return of reconnect_printer / attach leaves alone
attachEnv == <<appVars, scaleVars, devices, printer_model, print_config, image, pr_pc,
               status_data, status, written, lines_sent, last_line, pr_result>>

\* the configured name is there and does not parse
NameFailsToParse == printer_model # NoName /\ ~ModelTryFromStr(printer_model).ok

\* mutant: the name is parsed first, the old printer is dropped afterwards
ReconnectCall_ParseFirst ==
    /\ at_pc = "idle"
    /\ IF printer_model # NoName /\ ~ModelTryFromStr(printer_model).ok
       THEN /\ at_pc' = "returned"
            /\ released' = FALSE
            /\ UNCHANGED <<model, at_result, at_idx, opened, model_filter>>
       ELSE /\ model' = "none"
            /\ at_result' = AttachErr("NoPrinter")
            /\ released' = (at_result = AttachOk)
            /\ at_idx' = 0
            /\ opened' = <<>>
            /\ at_pc' = "list_devices"
            /\ model_filter' = (IF printer_model = NoName THEN NoFilter
                                ELSE ModelTryFromStr(printer_model).model)
    /\ UNCHANGED attachEnv

\* reconnect_printer (ui/mod.rs 124-137): the old printer is dropped, then
\* the configured name is parsed; `?` leaves on a name that does not parse,
\* before attach is called
ReconnectCall ==
    /\ at_pc = "idle"
    /\ model' = "none"
    /\ released' = (at_result = AttachOk)
    /\ at_result' = AttachErr("NoPrinter")
    /\ at_idx' = 0
    /\ opened' = <<>>
    /\ IF printer_model = NoName
       THEN model_filter' = NoFilter /\ at_pc' = "list_devices"
       ELSE IF ModelTryFromStr(printer_model).ok
            THEN /\ model_filter' = ModelTryFromStr(printer_model).model
                 /\ at_pc' = "list_devices"
            ELSE /\ model_filter' = NoFilter
                 /\ at_pc' = "returned"
    /\ UNCHANGED attachEnv

\* attach returns the error `e`
AttachFails(e) ==
    /\ at_result' = AttachErr(e)
    /\ at_pc' = "returned"

\* select_device: DeviceList::new()? (attach.rs 57)
ListDevices ==
    /\ at_pc = "list_devices"
    /\ \/ at_idx' = 1 /\ at_pc' = "scan" /\ UNCHANGED at_result
       \/ AttachFails("USBError") /\ UNCHANGED at_idx
    /\ UNCHANGED <<attachEnv, released, model, model_filter, opened>>

\* find_map looks at the next device (attach.rs 59-93); past the last one
\* select_device returns None and attach Error::NoPrinter (attach.rs 139)
ScanDevice ==
    /\ at_pc = "scan"
    /\ IF at_idx > Len(devices)
       THEN AttachFails("NoPrinter") /\ UNCHANGED at_idx
       ELSE IF SelectDeviceTest(devices[at_idx], model_filter)
            THEN at_pc' = "open" /\ UNCHANGED <<at_idx, at_result>>
            ELSE at_idx' = at_idx + 1 /\ UNCHANGED <<at_pc, at_result>>
    /\ UNCHANGED <<attachEnv, released, model, model_filter, opened>>

\* mutant: the error of a failed call is kept and attach goes on
AttachStep_GoesOn(step, next, errors) ==
    /\ at_pc = step
    /\ at_pc' = next
    /\ \/ UNCHANGED at_result
       \/ \E e \in errors : at_result' = AttachErr(e)
    /\ UNCHANGED <<attachEnv, released, model, model_filter, at_idx>>

\* one fallible USB call of attach: Ok goes on to `next`, Err leaves (`?`)
AttachStep(step, next, errors) ==
    /\ at_pc = step
    /\ \/ at_pc' = next /\ UNCHANGED at_result
       \/ \E e \in errors : AttachFails(e)
    /\ UNCHANGED <<attachEnv, released, model, model_filter, at_idx>>

\* device.open()? (attach.rs 143)
OpenDevice ==
    /\ AttachStep("open", "auto_detach", {"USBError"})
    /\ opened' = Append(opened, at_idx)

\* set_auto_detach_kernel_driver(true)? (attach.rs 144)
SetAutoDetach ==
    AttachStep("auto_detach", "select_interface", {"USBError"})
    /\ UNCHANGED opened

\* select_interface(&device)? (attach.rs 98-129, 147)
SelectInterface ==
    AttachStep("select_interface", "claim_interface",
               {"USBError", "NoInterface", "NoInterfaceDescriptor",
                "NoInEndpoint", "NoOutEndpoint"})
    /\ UNCHANGED opened

\* claim_interface(..)? (attach.rs 150)
ClaimInterface ==
    AttachStep("claim_interface", "read_serial", {"USBError"})
    /\ UNCHANGED opened

\* read_serial_number_string_ascii(..)? (attach.rs 153)
ReadSerial ==
    AttachStep("read_serial", "write_clear", {"USBError"})
    /\ UNCHANGED opened

\* printer.write(&[0x00; 350])? (attach.rs 166)
WriteClear ==
    AttachStep("write_clear", "write_init", {"USBError"})
    /\ UNCHANGED opened

\* printer.write(&[0x1b, 0x40])?; Ok(printer) (attach.rs 167-169)
WriteInit ==
    /\ at_pc = "write_init"
    /\ \/ /\ at_result' = AttachOk
          /\ at_pc' = "returned"
          /\ model' = ModelTryFromU16(devices[at_idx].product_id).model
       \/ AttachFails("USBError") /\ UNCHANGED model
    /\ UNCHANGED <<attachEnv, released, model_filter, at_idx, opened>>

\* reconnect_printer returns (ui/mod.rs 139-145); it is called again when
\* the reconnect date has passed
ReconnectReturn ==
    /\ at_pc = "returned"
    /\ at_pc' = "idle"
    /\ UNCHANGED <<attachEnv, released, model, model_filter, at_idx, at_result, opened>>

\* the names the info row is changed to while the application runs
ReloadedNames == {NoName, <<"q", "l", "5", "8", "0", "n">>}

\* key 'r' (ui/mod.rs 617-621): db.reload_info() (db/mod.rs 516-519) reads
\* the info row again, and the configured model name with it; keys are
\* handled between two calls of reconnect_printer
ReloadInfo ==
    /\ at_pc = "idle"
    /\ \E n \in ReloadedNames \ {printer_model} : printer_model' = n
    /\ UNCHANGED <<appVars, scaleVars, printVars, devices, model_filter, at_pc,
                   at_idx, at_result, opened, released>>

\* no print call in progress
PrintIdle ==
    /\ print_config = PrintConfigDefault
    /\ image = NoImage
    /\ pr_pc = "idle"
    /\ status_data = <<>>
    /\ status = NoStatus
    /\ written = <<>>
    /\ lines_sent = 0
    /\ last_line = <<>>
    /\ pr_result = NoResult

\* the session attach() returns, and no print call in progress
PrinterInit(ms) == model \in ms /\ PrintIdle /\ Attached

\* Printer::print_config: the caller changes the configuration
SetPrintConfig ==
    /\ pr_pc = "idle"
    /\ \E c \in PrintConfigs \ {print_config} : print_config' = c
    /\ UNCHANGED <<appVars, attachVars, scaleVars, model, image, pr_pc, status_data, status, written,
                   lines_sent, last_line, pr_result>>

\* the caller enters print(image)
PrintCall ==
    /\ pr_pc = "idle"
    /\ \E img \in Images : image' = img
    /\ pr_pc' = "request_status"
    /\ UNCHANGED <<appVars, attachVars, scaleVars, model, print_config, status_data, status, written,
                   lines_sent, last_line, pr_result>>

\* print returns `r`
PrintReturns(r) ==
    /\ pr_result' = r
    /\ pr_pc' = "returned"

\* one self.write(cmd)?: the bulk write succeeds and the job goes on, or it
\* fails and print returns the USB error
\* mutant: a failed write is recorded and tried again
PrintWrite_Retry(step, cmd, next) ==
    /\ pr_pc = step
    /\ \/ /\ written' = Append(written, cmd)
          /\ pr_pc' = next
          /\ UNCHANGED pr_result
       \/ /\ pr_result' = PrintUSBError
          /\ pr_result # PrintUSBError
          /\ UNCHANGED <<pr_pc, written>>
    /\ UNCHANGED <<appVars, attachVars, scaleVars, model, print_config, image, status_data, status,
                   lines_sent, last_line>>

PrintWrite(step, cmd, next) ==
    /\ pr_pc = step
    /\ \/ /\ written' = Append(written, cmd)
          /\ pr_pc' = next
          /\ UNCHANGED pr_result
       \/ /\ PrintReturns(PrintUSBError)
          /\ UNCHANGED written
    /\ UNCHANGED <<appVars, attachVars, scaleVars, model, print_config, image, status_data, status,
                   lines_sent, last_line>>

\* request_status: self.write(&[0x1b, 0x69, 0x53])?
RequestStatus == PrintWrite("request_status", StatusRequestCmd, "read_status")

\* read_status_response and print's checks of the status (print.rs 143-170)
ReadStatus ==
    /\ pr_pc = "read_status"
    /\ \/ /\ PrintReturns(PrintUSBError)
          /\ UNCHANGED <<status_data, status>>
       \/ \E data \in StatusReads :
            LET r == DecodeStatus(model, Len(data), data)
                e == Preflight(print_config, image, r)
            IN /\ status_data' = data
               /\ status' = r.status
               /\ IF e = PrintOk
                  THEN pr_pc' = "raster_mode" /\ UNCHANGED pr_result
                  ELSE PrintReturns(e)
    /\ UNCHANGED <<appVars, attachVars, scaleVars, model, print_config, image, written, lines_sent,
                   last_line>>

WriteRasterMode == PrintWrite("raster_mode", RasterModeCmd, "print_info")

WritePrintInfo ==
    PrintWrite("print_info", PrintInfoCmd(print_config, status.label, image),
               "print_mode")

WritePrintMode ==
    PrintWrite("print_mode", PrintModeCmd(print_config),
               IF print_config.auto_cut THEN "auto_cut" ELSE "expanded")

WriteAutoCut == PrintWrite("auto_cut", AutoCutCmd, "expanded")

WriteExpandedMode ==
    PrintWrite("expanded", ExpandedModeCmd(print_config), "feed_margin")

WriteFeedMargin ==
    PrintWrite("feed_margin", FeedMarginCmd(status.label), "compression")

WriteCompression ==
    PrintWrite("compression", CompressionCmd,
               IF image.height = 0 THEN "commit" ELSE "lines")

\* one turn of the loop over image.rows(): build the line, write it; the
\* line's bytes are kept in last_line and counted in lines_sent
WriteLine ==
    /\ pr_pc = "lines"
    /\ IF LineOverflows(model, status.label, image)
       THEN /\ PrintReturns(PrintPanic)
            /\ UNCHANGED <<lines_sent, last_line>>
       ELSE \/ /\ last_line' = LineCommand(model, print_config, status.label,
                                           image, lines_sent)
               /\ lines_sent' = lines_sent + 1
               /\ pr_pc' = IF lines_sent + 1 = image.height THEN "commit"
                           ELSE "lines"
               /\ UNCHANGED pr_result
            \/ /\ PrintReturns(PrintUSBError)
               /\ UNCHANGED <<lines_sent, last_line>>
    /\ UNCHANGED <<appVars, attachVars, scaleVars, model, print_config, image, status_data, status,
                   written>>

\* self.write(&[0x1a])?; Ok(())
WriteCommit ==
    /\ pr_pc = "commit"
    /\ \/ /\ written' = Append(written, CommitCmd)
          /\ PrintReturns(PrintOk)
       \/ /\ PrintReturns(PrintUSBError)
          /\ UNCHANGED written
    /\ UNCHANGED <<appVars, attachVars, scaleVars, model, print_config, image, status_data, status,
                   lines_sent, last_line>>

\* the caller has the result; the session is ready for the next call
PrintDone ==
    /\ pr_pc = "returned"
    /\ pr_pc' = "idle"
    /\ image' = NoImage
    /\ status_data' = <<>>
    /\ status' = NoStatus
    /\ written' = <<>>
    /\ lines_sent' = 0
    /\ last_line' = <<>>
    /\ pr_result' = NoResult
    /\ UNCHANGED <<appVars, attachVars, scaleVars, model, print_config>>

\* Printer::current_label: Ok(self.request_status()?.label)
CurrentLabelCall ==
    /\ pr_pc = "idle"
    /\ pr_pc' = "cl_request_status"
    /\ UNCHANGED <<appVars, attachVars, scaleVars, model, print_config, image, status_data, status,
                   written, lines_sent, last_line, pr_result>>

\* current_label returns `r`
CurrentLabelReturns(r) ==
    /\ pr_result' = r
    /\ pr_pc' = "cl_returned"

LabelUSBError == [PrintResult("StatusError") EXCEPT !.inner = "USBError"]

\* request_status on behalf of current_label: the write of the request
CurrentLabelRequest ==
    /\ pr_pc = "cl_request_status"
    /\ \/ /\ written' = Append(written, StatusRequestCmd)
          /\ pr_pc' = "cl_read_status"
          /\ UNCHANGED pr_result
       \/ /\ CurrentLabelReturns(LabelUSBError)
          /\ UNCHANGED written
    /\ UNCHANGED <<appVars, attachVars, scaleVars, model, print_config, image, status_data, status,
                   lines_sent, last_line>>

\* read_status_response on behalf of current_label; Ok carries the status's
\* label (kept in `status`)
CurrentLabelRead ==
    /\ pr_pc = "cl_read_status"
    /\ \/ /\ CurrentLabelReturns(LabelUSBError)
          /\ UNCHANGED <<status_data, status>>
       \/ \E data \in StatusReads :
            LET r == DecodeStatus(model, Len(data), data)
            IN /\ status_data' = data
               /\ status' = r.status
               /\ CurrentLabelReturns(
                     IF r.ok THEN PrintOk
                     ELSE [PrintResult("StatusError") EXCEPT !.inner = r.err])
    /\ UNCHANGED <<appVars, attachVars, scaleVars, model, print_config, image, written, lines_sent,
                   last_line>>

\* the caller has the label; the session is ready for the next call
CurrentLabelDone ==
    /\ pr_pc = "cl_returned"
    /\ pr_pc' = "idle"
    /\ status_data' = <<>>
    /\ status' = NoStatus
    /\ written' = <<>>
    /\ pr_result' = NoResult
    /\ UNCHANGED <<appVars, attachVars, scaleVars, model, print_config, image, lines_sent, last_line>>

(***************************************************************************)
(* The database (db/mod.rs)                                                *)
(***************************************************************************)
\* Option<T>
None == <<>>
Some(x) == <<x>>

\* ProductEntry (db/mod.rs 171-180): id, name and is_kg_price
Product(id, name, is_kg_price) ==
    [id |-> id, name |-> name, is_kg_price |-> is_kg_price]

\* the product names of the model, in the order of String::cmp
ProductNames == <<"Bergkaese", "Joghurt", "Quark">>
NameRank(name) == CHOOSE i \in 1..Len(ProductNames) : ProductNames[i] = name

\* Vec::remove(idx), idx counted from 0
VecRemove(v, idx) == [i \in 1..(Len(v) - 1) |-> IF i <= idx THEN v[i] ELSE v[i + 1]]

\* products.sort_by(|p0, p1| p0.name.cmp(&p1.name)) (db/mod.rs 250): a stable
\* sort, equal names keep their order
RECURSIVE SortByName(_)
SortByName(v) ==
    IF v = <<>> THEN <<>>
    ELSE LET head == SortByName(SubSeq(v, 1, Len(v) - 1))
             last == v[Len(v)]
             k == Cardinality({i \in 1..Len(head) :
                                 NameRank(head[i].name) <= NameRank(last.name)})
         IN SubSeq(head, 1, k) \o <<last>> \o SubSeq(head, k + 1, Len(head))

\* the rows of a table as a SELECT without ORDER BY walks them: by rowid
RECURSIVE RowsInOrder(_)
RowsInOrder(rows) ==
    IF rows = {} THEN <<>>
    ELSE LET first == CHOOSE r \in rows : \A q \in rows : r.id[1] <= q.id[1]
         IN <<first>> \o RowsInOrder(rows \ {first})

\* last_insert_rowid() after an INSERT: one above the largest rowid
NextRowId(rows) ==
    IF rows = {} THEN 1
    ELSE (CHOOSE r \in rows : \A q \in rows : q.id[1] <= r.id[1]).id[1] + 1

DbOk(op)  == [op |-> op, ok |-> TRUE]
DbErr(op) == [op |-> op, ok |-> FALSE]
NoDbCall  == [op |-> "none", ok |-> TRUE]

\* the tables open_or_create makes (db/mod.rs 433-470) and the one that
\* ProductEntry::store names (db/mod.rs 261, 291)
SchemaTables == {"info", "products", "sales"}
StoreTable == "product"
DeleteTable == "products"

\* ProductEntry::load_all (db/mod.rs 231-253).  failing = 0: the statement
\* cannot be prepared, the list is untouched; failing = k: row k cannot be
\* read, after clear() and the rows before it; failing > number of rows: Ok
LoadAll(list, rows, failing) ==
    LET all == RowsInOrder(rows)
    IN IF failing = 0 THEN [ok |-> FALSE, products |-> list]
       ELSE IF failing <= Len(all)
            THEN [ok |-> FALSE, products |-> SubSeq(all, 1, failing - 1)]
            ELSE [ok |-> TRUE, products |-> SortByName(all)]

\* ProductEntry::store (db/mod.rs 256-326): REPLACE with an id, INSERT and
\* last_insert_rowid() without; a statement on a table the file does not
\* have is an error, and any statement can fail
Store(product, tables, rows, fails) ==
    IF fails \/ StoreTable \notin tables
    THEN [ok |-> FALSE, product |-> product, rows |-> rows]
    ELSE LET kept == IF product.id = None
                     THEN [product EXCEPT !.id = Some(NextRowId(rows))]
                     ELSE product
         IN [ok |-> TRUE, product |-> kept,
             rows |-> {r \in rows : r.id # kept.id} \cup {kept}]

\* ProductEntry::delete (db/mod.rs 329-341): nothing to do without an id
Delete(product, rows, fails) ==
    IF product.id = None THEN [ok |-> TRUE, rows |-> rows]
    ELSE IF fails THEN [ok |-> FALSE, rows |-> rows]
    ELSE [ok |-> TRUE, rows |-> {r \in rows : r.id # product.id}]

\* the largest list and the largest sales table the model follows
MaxProducts == 3
MaxRows == 2
MaxSales == 1

\* the entries a caller adds, and the changes a caller makes to an entry
NewProducts == {Product(None, "Bergkaese", FALSE), Product(None, "Quark", TRUE)}
ToggleKgPrice(product) == [product EXCEPT !.is_kg_price = ~@]

dbEnv == <<scaleVars, printVars, attachVars, uiVars, db_tables, sales>>

\* Database::add_product (db/mod.rs 537-542): push, then store
AddProduct ==
    /\ Len(products) < MaxProducts
    /\ Cardinality(db_rows[StoreTable]) < MaxRows
    /\ \E new_product \in NewProducts, fails \in BOOLEAN :
         LET r == Store(new_product, db_tables, db_rows[StoreTable], fails)
         IN /\ products' = Append(products, r.product)
            /\ db_rows' = [db_rows EXCEPT ![StoreTable] = r.rows]
            /\ db_result' = (IF r.ok THEN DbOk("add_product")
                             ELSE DbErr("add_product"))
    /\ UNCHANGED dbEnv

\* Database::update_product (db/mod.rs 544-555): change in place, then store
UpdateProduct ==
    /\ \E idx \in 0..(Len(products) - 1), fails \in BOOLEAN :
         LET r == Store(ToggleKgPrice(products[idx + 1]), db_tables,
                        db_rows[StoreTable], fails)
         IN /\ Cardinality(r.rows) <= MaxRows
            /\ products' = [products EXCEPT ![idx + 1] = r.product]
            /\ db_rows' = [db_rows EXCEPT ![StoreTable] = r.rows]
            /\ db_result' = (IF r.ok THEN DbOk("update_product")
                             ELSE DbErr("update_product"))
    /\ UNCHANGED dbEnv

\* Database::delete_product (db/mod.rs 557-562): remove, then delete
DeleteProduct ==
    /\ \E idx \in 0..(Len(products) - 1), fails \in BOOLEAN :
         LET r == Delete(products[idx + 1], db_rows[DeleteTable], fails)
         IN /\ products' = VecRemove(products, idx)
            /\ db_rows' = [db_rows EXCEPT ![DeleteTable] = r.rows]
            /\ db_result' = (IF r.ok THEN DbOk("delete_product")
                             ELSE DbErr("delete_product"))
    /\ UNCHANGED dbEnv

\* Database::reload_products (db/mod.rs 532-535)
ReloadProducts ==
    /\ \E failing \in 0..(Cardinality(db_rows["products"]) + 1) :
         LET r == LoadAll(products, db_rows["products"], failing)
         IN /\ products' = r.products
            /\ db_result' = (IF r.ok THEN DbOk("reload_products")
                             ELSE DbErr("reload_products"))
    /\ UNCHANGED <<dbEnv, db_rows>>

\* the product tables a database file starts with
StoredProducts ==
    {{}, {Product(Some(2), "Quark", TRUE), Product(Some(5), "Bergkaese", FALSE)}}

\* Database::open_or_create (db/mod.rs 427-514): the tables of the schema
\* exist, the list is the sorted product table; a file made elsewhere may
\* have further tables
DbInit ==
    /\ db_tables \in {SchemaTables, SchemaTables \cup {StoreTable}}
    /\ \E stored \in StoredProducts :
         /\ db_rows = [t \in {StoreTable, DeleteTable} |->
                          IF t = "products" THEN stored ELSE {}]
         /\ products = SortByName(RowsInOrder(stored))
    /\ sales = <<>>
    /\ db_result = NoDbCall

(***************************************************************************)
(* The user interface (ui/mod.rs): one main thread, a loop of key events   *)
(* and ticks; the printer and the scale are its environment                *)
(***************************************************************************)
\* struct Action and selected_action (ui/mod.rs 59-63, 183-208)
Action(sale, print, dump) == [sale |-> sale, print |-> print, dump |-> dump]
NoAction == Action(FALSE, FALSE, FALSE)
SelectedAction(idx) ==
    CASE idx = 0 -> Action(TRUE, TRUE, FALSE)
      [] idx = 1 -> Action(TRUE, FALSE, FALSE)
      [] idx = 2 -> Action(FALSE, TRUE, FALSE)
      [] idx = 3 -> Action(FALSE, FALSE, TRUE)

\* actions_count (ui/mod.rs 94-96)
ActionsCount(dump) == 3 + (IF dump THEN 1 ELSE 0)

\* enum Popup (ui/mod.rs 66-77)
NoProduct == Product(None, "", FALSE)
Dialog(action, product, weight_kg) ==
    [kind |-> "Dialog", action |-> action, product |-> product,
     weight_kg |-> weight_kg, ty |-> "-", text |-> ""]
Message(ty, text) ==
    [kind |-> "Message", action |-> NoAction, product |-> NoProduct,
     weight_kg |-> None, ty |-> ty, text |-> text]
NoJob == Dialog(NoAction, NoProduct, None)
SuccessText == "Vorgang erfolgreich abgeschlossen"

\* SaleEntry::new(now, name, weight_kg, price_ct) (ui/mod.rs 573)
Sale(product, weight_kg) == [name |-> product.name, weight_kg |-> weight_kg]

\* weight_kg < 0.0 (ui/mod.rs 311): false for NaN and for both zeroes
F64LtZero(v) == F64Negative(v)

\* the readings the worker publishes while the interface runs
UIReadings ==
    {NotOpenedYet}
    \cup {Decoded[MakeResponse(sign, field)] :
            sign \in {32, 45},
            field \in {<<32, 32, 49, 50, 46, 53>>,     \* "  12.5"
                       <<32, 32, 32, 78, 97, 78>>}}    \* "   NaN"

\* what Printer::current_label and Printer::print hand back to the caller
LabelOutcomes == {"Continuous", "DieCut", "None", "Err"}
PrintOutcomes == {"Ok", "USBError", "OtherError", "panic"}

\* the nested calls of print_voucher the stack has room for
MaxCallDepth == 2

\* what no handler of the interface touches
uiEnv ==
    <<kind, port_script, pc, site, should_exit, guard_lock, cv_waiting,
      weight_lock, port, weight_response, pub_val, pub_ret, fake_weight, owner,
      ret, runloop_handle, last_op, cancel_at,
      print_config, image, pr_pc, status_data, status, written, lines_sent,
      last_line, pr_result,
      devices, model_filter, at_pc, at_idx, opened,
      db_tables, db_rows, dump_voucher>>
readingVars == <<weight, published>>
sessionVars == <<model, at_result, released>>
listVars == <<products, printer_model, product_idx>>
jobVars == <<job, should_retry, reconnects, print_attempts, print_outcome>>

\* the App value App::run builds (ui/mod.rs 730-742)
UIIdle ==
    /\ focus = "Product"
    /\ popup = None
    /\ product_idx = None
    /\ action_idx = None
    /\ dialog_idx = None
    /\ ui_pc = "startup"
    /\ job = NoJob
    /\ should_retry = FALSE
    /\ reconnects = 0
    /\ print_attempts = 0
    /\ print_outcome = "none"
    /\ ui_exit = "running"

\* the application at its start, on a database of two products, one of
\* them sold by weight
AppIdle ==
    /\ db_tables = SchemaTables
    /\ db_rows = [t \in {StoreTable, DeleteTable} |->
                    IF t = "products"
                    THEN {Product(Some(1), "Quark", TRUE),
                          Product(Some(2), "Bergkaese", FALSE)}
                    ELSE {}]
    /\ products = SortByName(RowsInOrder(db_rows["products"]))
    /\ sales = <<>>
    /\ db_result = NoDbCall
    /\ UIIdle

\* mutant: the message is stored, the focus stays where it is
ShowMessage_KeepsFocus(ty, text) ==
    /\ popup' = Some(Message(ty, text))
    /\ UNCHANGED focus

\* show_message (ui/mod.rs 251-254)
ShowMessage(ty, text) ==
    /\ popup' = Some(Message(ty, text))
    /\ focus' = "Message"

\* show_dialog (ui/mod.rs 256-267)
ShowDialog(action, product, weight_kg) ==
    /\ popup' = Some(Dialog(action, product, weight_kg))
    /\ focus' = "Dialog"
    /\ dialog_idx' = Some(0)

\* reset_selected_product_idx (ui/mod.rs 157-165)
ResetSelectedProductIdx(list) == IF list = <<>> THEN None ELSE Some(0)

\* run_in_terminal returns (`?`, key 'q') or the thread panics
Leaves(how) ==
    /\ ui_exit' = how
    /\ ui_pc' = (IF how \in {"Ok", "Err"} THEN "exited" ELSE "crashed")

\* reconnect_printer (ui/mod.rs 124-146) as one step of the main thread:
\* the old session is dropped; a name that does not parse leaves with `?`;
\* attach returns a session on the first device that qualifies, or an error
ReconnectPrinter(returns_ok) ==
    /\ released' = (at_result = AttachOk)
    /\ returns_ok = ~NameFailsToParse
    /\ IF NameFailsToParse
       THEN at_result' = AttachErr("NoPrinter") /\ model' = "none"
       ELSE LET filter == IF printer_model = NoName THEN NoFilter
                          ELSE ModelTryFromStr(printer_model).model
                found == {i \in 1..Len(devices) :
                            SelectDeviceTest(devices[i], filter)}
            IN \/ /\ found # {}
                  /\ at_result' = AttachOk
                  /\ model' = ModelTryFromU16(
                        devices[CHOOSE i \in found : \A j \in found : i <= j]
                            .product_id).model
               \/ /\ \E e \in {"NoPrinter", "USBError"} : at_result' = AttachErr(e)
                  /\ model' = "none"

\* on_startup (ui/mod.rs 98-109)
Startup ==
    /\ ui_pc = "startup"
    /\ product_idx' = ResetSelectedProductIdx(products)
    /\ action_idx' = Some(0)
    /\ \E returns_ok \in BOOLEAN :
         /\ ReconnectPrinter(returns_ok)
         /\ IF returns_ok THEN ui_pc' = "idle" /\ UNCHANGED ui_exit
            ELSE Leaves("Err")
    /\ UNCHANGED <<uiEnv, db_result, readingVars, jobVars, products, printer_model, sales,
                   focus, popup, dialog_idx>>

\* on_tick (ui/mod.rs 111-118), when the reconnect date has passed
Tick ==
    /\ ui_pc = "idle"
    /\ \E returns_ok \in BOOLEAN :
         /\ ReconnectPrinter(returns_ok)
         /\ IF returns_ok THEN UNCHANGED <<ui_pc, ui_exit>> ELSE Leaves("Err")
    /\ UNCHANGED <<uiEnv, db_result, readingVars, jobVars, listVars, sales, focus, popup,
                   action_idx, dialog_idx>>

\* the worker thread publishes a reading between two events
ScaleReading ==
    /\ ui_pc = "idle"
    /\ \E r \in UIReadings \ {weight} : weight' = r /\ published' = r
    /\ UNCHANGED <<uiEnv, db_result, sessionVars, jobVars, listVars, sales, focus, popup,
                   action_idx, dialog_idx, ui_pc, ui_exit>>

\* key 'q' (ui/mod.rs 616)
KeyQuit ==
    /\ ui_pc = "idle"
    /\ Leaves("Ok")
    /\ UNCHANGED <<uiEnv, db_result, readingVars, sessionVars, jobVars, listVars, sales,
                   focus, popup, action_idx, dialog_idx>>

\* key 'r' (ui/mod.rs 617-621): reload_info()?, reload_products()?,
\* reset_selected_product_idx()
KeyReload ==
    /\ ui_pc = "idle"
    /\ \/ /\ Leaves("Err")                  \* reload_info fails
          /\ UNCHANGED <<listVars, db_result>>
       \/ /\ \E n \in ReloadedNames : printer_model' = n
          /\ \E failing \in 0..(Cardinality(db_rows["products"]) + 1) :
               LET r == LoadAll(products, db_rows["products"], failing)
               IN /\ products' = r.products
                  /\ db_result' = (IF r.ok THEN DbOk("reload_products")
                                   ELSE DbErr("reload_products"))
                  /\ IF r.ok
                     THEN /\ product_idx' = ResetSelectedProductIdx(r.products)
                          /\ UNCHANGED <<ui_pc, ui_exit>>
                     ELSE /\ Leaves("Err")
                          /\ UNCHANGED product_idx
    /\ UNCHANGED <<uiEnv, readingVars, sessionVars, jobVars, sales, focus,
                   popup, action_idx, dialog_idx>>

\* select_previous_* / select_next_* (ui/mod.rs 167-249)
SelectPrevious(idx) ==
    IF idx # None /\ idx[1] > 0 THEN Some(idx[1] - 1) ELSE idx
SelectNext(idx, count) ==
    IF idx # None /\ idx[1] < count - 1 THEN Some(idx[1] + 1) ELSE idx

\* navigate (ui/mod.rs 269-283), keys Up, Down, Left, Right
KeyNavigate ==
    /\ ui_pc = "idle"
    /\ \E navigation \in {"Up", "Down", "Left", "Right"} :
         CASE focus = "Product" /\ navigation = "Up" ->
                /\ product_idx' = SelectPrevious(product_idx)
                /\ UNCHANGED <<focus, action_idx, dialog_idx>>
           [] focus = "Product" /\ navigation = "Down" ->
                /\ product_idx' = SelectNext(product_idx, Len(products))
                /\ UNCHANGED <<focus, action_idx, dialog_idx>>
           [] focus = "Product" /\ navigation = "Right" ->
                /\ focus' = "Sale"
                /\ UNCHANGED <<product_idx, action_idx, dialog_idx>>
           [] focus = "Sale" /\ navigation = "Up" ->
                /\ action_idx' = SelectPrevious(action_idx)
                /\ UNCHANGED <<focus, product_idx, dialog_idx>>
           [] focus = "Sale" /\ navigation = "Down" ->
                /\ action_idx' = SelectNext(action_idx, ActionsCount(dump_voucher))
                /\ UNCHANGED <<focus, product_idx, dialog_idx>>
           [] focus = "Sale" /\ navigation = "Left" ->
                /\ focus' = "Product"
                /\ UNCHANGED <<product_idx, action_idx, dialog_idx>>
           [] focus = "Dialog" /\ navigation = "Up" ->
                /\ dialog_idx' = SelectPrevious(dialog_idx)
                /\ UNCHANGED <<focus, product_idx, action_idx>>
           [] focus = "Dialog" /\ navigation = "Down" ->
                /\ dialog_idx' = SelectNext(dialog_idx, 2)
                /\ UNCHANGED <<focus, product_idx, action_idx>>
           [] OTHER -> UNCHANGED <<focus, product_idx, action_idx, dialog_idx>>
    /\ UNCHANGED <<uiEnv, db_result, readingVars, sessionVars, jobVars, products,
                   printer_model, sales, popup, ui_pc, ui_exit>>

\* perform_action, Focus::Sale (ui/mod.rs 287-329)
EnterOnSale ==
    /\ ui_pc = "idle"
    /\ focus = "Sale"
    /\ IF product_idx = None
       THEN UNCHANGED <<focus, popup, dialog_idx>>
       ELSE LET product == products[product_idx[1] + 1]
            IN IF ~product.is_kg_price
               THEN ShowDialog(SelectedAction(action_idx[1]), product, None)
               ELSE IF weight.tag # "Ok"
               THEN /\ ShowMessage("Error", "Fehler beim Zugriff auf die Waage")
                    /\ UNCHANGED dialog_idx
               ELSE IF F64LtZero(weight.payload)
               THEN /\ ShowMessage("Error", "Untergewicht (< 0.0 kg) auf der Waage")
                    /\ UNCHANGED dialog_idx
               ELSE ShowDialog(SelectedAction(action_idx[1]), product,
                               Some(weight.payload))
    /\ UNCHANGED <<uiEnv, db_result, readingVars, sessionVars, jobVars, listVars, sales,
                   action_idx, ui_pc, ui_exit>>

\* perform_action, Focus::Dialog (ui/mod.rs 331-375): the dialog is taken
\* from popup; Confirm goes on to the voucher, the sale and the message
EnterOnDialog ==
    /\ ui_pc = "idle"
    /\ focus = "Dialog"
    /\ IF popup = None \/ popup[1].kind # "Dialog"
       THEN /\ Leaves("panic: Dialog is focused, but not present.")
            /\ UNCHANGED <<focus, popup, jobVars>>
       ELSE /\ popup' = None
            /\ focus' = "Sale"
            /\ UNCHANGED ui_exit
            /\ IF dialog_idx = Some(0)
               THEN /\ Len(sales) < MaxSales
                    /\ job' = popup[1]
                    /\ should_retry' = TRUE
                    /\ reconnects' = 0
                    /\ print_attempts' = 0
                    /\ print_outcome' = "none"
                    /\ ui_pc' = (IF popup[1].action.print THEN "print_voucher"
                                 ELSE "perform_sale")
               ELSE UNCHANGED <<jobVars, ui_pc>>
    /\ UNCHANGED <<uiEnv, db_result, readingVars, sessionVars, listVars, sales,
                   action_idx, dialog_idx>>

\* perform_action, Focus::Message (ui/mod.rs 377-383) and Focus::Product
EnterOnMessage ==
    /\ ui_pc = "idle"
    /\ focus \in {"Message", "Product"}
    /\ IF focus = "Message"
       THEN /\ popup' = None
            /\ focus' = "Sale"
            /\ job' = NoJob
            /\ should_retry' = FALSE
            /\ reconnects' = 0
            /\ print_attempts' = 0
            /\ print_outcome' = "none"
       ELSE UNCHANGED <<popup, focus, jobVars>>
    /\ UNCHANGED <<uiEnv, db_result, readingVars, sessionVars, listVars, sales,
                   action_idx, dialog_idx, ui_pc, ui_exit>>

\* print_voucher returns Ok(false) after show_message; perform_action
\* returns (ui/mod.rs 346-348)
VoucherFails(outcome, text) ==
    /\ ShowMessage("Error", text)
    /\ print_outcome' = outcome
    /\ ui_pc' = "idle"
    /\ UNCHANGED ui_exit

\* print_voucher calls itself with should_retry = false (ui/mod.rs 498,
\* 556): one more frame on the stack, or no room for it
VoucherAgain ==
    /\ should_retry' = FALSE
    /\ IF reconnects < MaxCallDepth
       THEN ui_pc' = "print_voucher" /\ UNCHANGED ui_exit
       ELSE Leaves("stack overflow")

\* print_voucher, the match on self.printer (ui/mod.rs 491-510)
VoucherPrinter ==
    /\ ui_pc = "print_voucher"
    /\ IF at_result = AttachOk
       THEN /\ ui_pc' = "current_label"
            /\ UNCHANGED <<sessionVars, should_retry, reconnects, print_outcome,
                           popup, focus, ui_exit>>
       ELSE IF should_retry
       THEN /\ reconnects' = reconnects + 1
            /\ \E returns_ok \in BOOLEAN :
                 /\ ReconnectPrinter(returns_ok)
                 /\ IF returns_ok THEN VoucherAgain
                    ELSE Leaves("Err") /\ UNCHANGED should_retry
            /\ UNCHANGED <<print_outcome, popup, focus>>
       ELSE /\ VoucherFails("no printer", "Fehler beim Zugriff auf den Drucker")
            /\ UNCHANGED <<sessionVars, should_retry, reconnects>>
    /\ UNCHANGED <<uiEnv, db_result, readingVars, listVars, sales, action_idx, dialog_idx,
                   job, print_attempts>>

\* print_voucher, printer.current_label() and the label type
\* (ui/mod.rs 512-545)
VoucherLabel ==
    /\ ui_pc = "current_label"
    /\ \E label \in LabelOutcomes :
         CASE label = "Continuous" ->
                /\ ui_pc' = "print"
                /\ UNCHANGED <<popup, focus, print_outcome, ui_exit>>
           [] label = "None" ->
                VoucherFails("no label",
                             "Fehler bei der Label-Abfrage: Es ist kein Label eingelegt.")
           [] label = "Err" ->
                VoucherFails("label error", "Fehler bei der Label-Abfrage")
           [] label = "DieCut" ->
                VoucherFails("not continuous",
                             "Fehler bei der Label-Abfrage: Es werden derzeit nur laufende Labels unterstuetzt.")
    /\ UNCHANGED <<uiEnv, db_result, readingVars, sessionVars, listVars, sales, action_idx,
                   dialog_idx, job, should_retry, reconnects, print_attempts>>

\* print_voucher, printer.print(&voucher) (ui/mod.rs 552-565)
VoucherPrint ==
    /\ ui_pc = "print"
    /\ print_attempts' = print_attempts + 1
    /\ \E result \in PrintOutcomes :
         CASE result = "Ok" ->
                /\ print_outcome' = "printed"
                /\ ui_pc' = "perform_sale"
                /\ UNCHANGED <<sessionVars, should_retry, reconnects, popup,
                               focus, ui_exit>>
           [] result = "USBError" ->
                /\ print_outcome' = "USB error"
                /\ reconnects' = reconnects + 1
                /\ \E returns_ok \in BOOLEAN :
                     /\ ReconnectPrinter(returns_ok)
                     /\ IF returns_ok THEN VoucherAgain
                        ELSE Leaves("Err") /\ UNCHANGED should_retry
                /\ UNCHANGED <<popup, focus>>
           [] result = "OtherError" ->
                /\ VoucherFails("print error", "Fehler beim Drucken")
                /\ UNCHANGED <<sessionVars, should_retry, reconnects>>
           [] result = "panic" ->
                /\ print_outcome' = "panic"
                /\ Leaves("panic: index out of bounds")
                /\ UNCHANGED <<sessionVars, should_retry, reconnects, popup, focus>>
    /\ UNCHANGED <<uiEnv, db_result, readingVars, listVars, sales, action_idx, dialog_idx,
                   job>>

\* perform_action after the voucher: perform_sale, dump_voucher and the
\* success message (ui/mod.rs 350-365, 568-577)
PerformSale ==
    /\ ui_pc = "perform_sale"
    /\ \/ /\ sales' = (IF job.action.sale
                       THEN Append(sales, Sale(job.product, job.weight_kg))
                       ELSE sales)
          /\ ShowMessage("Info", SuccessText)
          /\ ui_pc' = "idle"
          /\ UNCHANGED ui_exit
       \/ /\ job.action.sale              \* add_sale(&sale)? fails
          /\ Leaves("Err")
          /\ UNCHANGED <<sales, popup, focus>>
    /\ UNCHANGED <<uiEnv, db_result, readingVars, sessionVars, listVars, jobVars,
                   action_idx, dialog_idx>>

\* the application on a database of two products and one printer on the bus
UIInit ==
    /\ ScalesInit /\ kind = "emulated"
    /\ model = "none" /\ PrintIdle
    /\ devices = <<Device(TRUE, VENDOR_ID, 8232)>>
    /\ printer_model = NoName
    /\ model_filter = NoFilter
    /\ at_pc = "idle"
    /\ at_idx = 0
    /\ at_result = AttachErr("NoPrinter")
    /\ opened = <<>>
    /\ released = FALSE
    /\ dump_voucher \in BOOLEAN
    /\ AppIdle

UINext ==
    \/ Startup \/ Tick \/ ScaleReading \/ KeyQuit \/ KeyReload \/ KeyNavigate
    \/ EnterOnSale \/ EnterOnDialog \/ EnterOnMessage
    \/ VoucherPrinter \/ VoucherLabel \/ VoucherPrint \/ PerformSale

UISpec == UIInit /\ [][UINext]_vars

\* a database file and the calls of the product API
DbSpecInit ==
    /\ ScalesInit /\ kind = "emulated"
    /\ PrinterInit({"BrotherQL570"})
    /\ DbInit
    /\ UIIdle /\ dump_voucher = FALSE

DbNext == AddProduct \/ UpdateProduct \/ DeleteProduct \/ ReloadProducts

DbSpec == DbSpecInit /\ [][DbNext]_vars

PrintInit ==
    /\ ScalesInit /\ kind = "emulated" /\ PrinterInit(PrintModels)
    /\ AppIdle /\ dump_voucher = FALSE

PrintNext ==
    \/ SetPrintConfig \/ PrintCall \/ RequestStatus \/ ReadStatus
    \/ WriteRasterMode \/ WritePrintInfo \/ WritePrintMode \/ WriteAutoCut
    \/ WriteExpandedMode \/ WriteFeedMargin \/ WriteCompression \/ WriteLine
    \/ WriteCommit \/ PrintDone
    \/ CurrentLabelCall \/ CurrentLabelRequest \/ CurrentLabelRead
    \/ CurrentLabelDone

PrintSpec == PrintInit /\ [][PrintNext]_vars

\* the application starts without a printer (ui/mod.rs 734) and reconnects
AttachInit ==
    /\ ScalesInit /\ kind = "emulated"
    /\ model = "none" /\ PrintIdle
    /\ devices \in DeviceLists
    /\ printer_model \in ModelNames
    /\ model_filter = NoFilter
    /\ at_pc = "idle"
    /\ at_idx = 0
    /\ at_result = AttachErr("NoPrinter")
    /\ opened = <<>>
    /\ released = FALSE
    /\ AppIdle /\ dump_voucher = FALSE

AttachNext ==
    \/ ReconnectCall \/ ReloadInfo \/ ListDevices \/ ScanDevice \/ OpenDevice
    \/ SetAutoDetach \/ SelectInterface \/ ClaimInterface \/ ReadSerial
    \/ WriteClear \/ WriteInit \/ ReconnectReturn

AttachSpec == AttachInit /\ [][AttachNext]_vars

(***************************************************************************)
(* The scale engine                                                        *)
(***************************************************************************)
\* worker steps that the scheduler alone decides (no clock involved)
WorkerStep ==
    \/ OpenPortOk \/ OpenPortErr
    \/ PubLock \/ PubStoreTag \/ PubStore
    \/ WaitLock \/ WaitCheck \/ WaitRelock
    \/ CheckLock \/ CheckRead
    \/ WriteInfo \/ ReadInfo \/ WriteWeight \/ ReadWeight \/ ParseResponse
    \/ EmulPublish \/ EmulVary

\* the steps of weight() once it holds the mutex
WeightStep == WeightClone \/ WeightReturn

\* the steps of drop once it has begun
DropStep == CancelSet \/ CancelNotify \/ Join

Init ==
    /\ ScalesInit /\ PrinterInit({"BrotherQL570"})
    /\ AppIdle /\ dump_voucher = FALSE

Next ==
    \/ OpenPortOk \/ OpenPortErr
    \/ PubLock \/ PubStoreTag \/ PubStore
    \/ WaitLock \/ WaitCheck \/ WaitCheckElapsed \/ WaitWakeup \/ WaitRelock
    \/ CheckLock \/ CheckRead
    \/ WriteInfo \/ ReadInfo \/ WriteWeight \/ ReadWeight \/ ParseResponse
    \/ EmulPublish \/ EmulVary
    \/ WeightLock \/ WeightClone \/ WeightReturn
    \/ CancelLock \/ CancelSet \/ CancelNotify \/ Join

Spec == Init /\ [][Next]_vars

(***************************************************************************)
(* The decoder on its own: the worker has read a 45-byte response and      *)
(* passed the fourth guard.check(); what follows is lines 245-276.         *)
(***************************************************************************)
ParseInit ==
    /\ kind = "serial"
    /\ port_script = "any"
    /\ pc = "parse"
    /\ site = "none"
    /\ should_exit = GuardDefault
    /\ guard_lock = "none"
    /\ cv_waiting = FALSE
    /\ weight = NotOpenedYet
    /\ weight_lock = "none"
    /\ port = "open"
    /\ weight_response \in ParseResponses
    /\ pub_val = NoValue
    /\ pub_ret = "none"
    /\ fake_weight = FakeWeightInit
    /\ owner = "idle"
    /\ ret = NoValue
    /\ runloop_handle = "Some"
    /\ published = NotOpenedYet
    /\ last_op = [op |-> "read_weight", ok |-> TRUE, err |-> ""]
    /\ cancel_at = NotCancelled
    /\ PrinterInit({"BrotherQL570"})
    /\ AppIdle /\ dump_voucher = FALSE

ParseNext == ParseResponse \/ PubLock \/ PubStoreTag \/ PubStore

ParseSpec == ParseInit /\ [][ParseNext]_vars

\* Threads that can run are scheduled; waits on the condition variable are
\* not assumed to time out, and device calls return (they carry IO_TIMEOUT).
\* A thread that asks for a mutex which is released again and again gets it.
FairSpec ==
    Spec /\ SF_vars(WorkerStep) /\ WF_vars(WeightStep) /\ WF_vars(DropStep)

(***************************************************************************)
(* Properties of the scale engine                                          *)
(***************************************************************************)
IOSteps == {"write_info", "read_info", "write_weight", "read_weight"}
PubPcs  == {"pub_lock", "pub_tag", "pub_store"}
WaitPcs == {"wait_lock", "wait_cond", "wait_parked"}
OkNeg1250 == OkWeight(F64Fin(TRUE, 125, -1))

\* C1: once drop has set the cancellation flag, whatever the worker was doing,
\* the worker eventually exits and drop returns; and drop returns only after
\* the worker has exited.
C1_DropAlwaysReturns ==
    /\ should_exit ~> (owner = "dropped")
    /\ [](owner = "dropped" => pc = "exited")

\* C2: the reading's mutex is held by the worker only during the assignment
\* of a reading and by the owner only during the clone in weight(); in
\* particular never while the worker opens the port, writes, reads, or is
\* inside guard.wait / guard.check.
C2_LockOnlyForAssignment ==
    /\ weight_lock = "worker" <=> pc \in {"pub_tag", "pub_store"}
    /\ weight_lock = "owner" <=> owner \in {"weight_clone", "weight_return"}
    /\ pc \in IOSteps \cup WaitPcs \cup {"open", "chk_lock", "chk_read"}
          => weight_lock # "worker"

\* C2 witness: weight() holds the lock and clones while the worker is inside
\* a device read, and (another state) while the worker is parked in backoff
C2_Witness ==
    /\ owner = "weight_clone" /\ weight_lock = "owner"
    /\ pc = "read_weight" /\ port = "open"

\* C3: what weight() returns is a fully-formed reading and is the reading the
\* worker published last (NotOpenedYet before the first publication); the
\* shared reading changes only in the worker's assignment, under the mutex.
C3_ReadsArePublications ==
    /\ [](owner = "weight_return" => ret = published /\ CompleteReading(ret))
    /\ [](published = NotOpenedYet \/ last_op # NoOp \/ kind = "emulated")
    /\ [][weight' # weight => weight_lock = "worker" /\ pc \in {"pub_tag", "pub_store"}]_vars

\* C3 witness: weight() returns an I/O error the worker published
C3_Witness ==
    /\ owner = "weight_return"
    /\ ret = ErrIO("TimedOut")
    /\ published = ret

\* C4: the flag is false until drop's cancel() sets it, is set in cancel() and
\* nowhere else, is never reset, and is set once drop has gone past cancel().
C4_FlagMonotonic ==
    /\ [](owner \in {"idle", "weight_clone", "weight_return", "cancel_set"}
             => ~should_exit)
    /\ [](owner \in {"cancel_notify", "join", "dropped"} => should_exit)
    /\ [][should_exit => should_exit']_vars
    /\ [][~should_exit /\ should_exit' => owner = "cancel_set"]_vars

\* C4 witness: drop has returned with the flag set
C4_Witness == owner = "dropped" /\ should_exit

\* C5: the worker thread has ended only if cancellation was requested; the
\* JoinHandle of the one spawned thread is held until drop takes it.
C5_WorkerLivesUntilCancel ==
    /\ pc = "exited" => should_exit
    /\ runloop_handle = "None" <=> owner = "dropped"

\* C5 witness: after a failed open, a failed read and a parse failure in the
\* past, the worker is alive and uncancelled, about to reopen the port
C5_Witness ==
    /\ ~should_exit
    /\ pc = "open"
    /\ last_op = [op |-> "read_weight", ok |-> FALSE, err |-> "BrokenPipe"]

\* the flag was set while the worker was inside open_port's guard.wait
CancelledInBackoff == cancel_at.site = "backoff" /\ cancel_at.pc \in WaitPcs

\* C6: when the flag is set while the worker is inside the backoff wait, the
\* worker exits and drop returns without the timeout having to run out, and
\* the worker makes no further port-open attempt (no device operation at all).
C6_CancelDuringBackoff ==
    /\ CancelledInBackoff ~> (owner = "dropped")
    /\ [][CancelledInBackoff => pc' # "open" /\ last_op' = last_op]_vars

\* C6 witness: drop has returned after cancelling a worker parked in backoff
C6_Witness ==
    /\ cancel_at = [pc |-> "wait_parked", site |-> "backoff"]
    /\ owner = "dropped"
    /\ last_op = [op |-> "open", ok |-> FALSE, err |-> "NoDevice"]

\* the worker's last device operation was a protocol step, and it failed
StepFailed == last_op.op \in IOSteps /\ ~last_op.ok

\* C7: after a failed protocol step the worker publishes that step's I/O
\* error, drops the port, and its next device operation is a port open.
C7_FailedStepReopens ==
    StepFailed =>
        /\ pc \in PubPcs \cup {"open"}
        /\ pc \in PubPcs => pub_val = ErrIO(last_op.err)
        /\ pc = "open" => /\ published = ErrIO(last_op.err)
                          /\ weight = ErrIO(last_op.err)
                          /\ port = "none"

\* C7 witness: the 45-byte read failed, its error is the current reading, the
\* port is gone and the worker is about to open it again
C7_Witness ==
    /\ last_op = [op |-> "read_weight", ok |-> FALSE, err |-> "TimedOut"]
    /\ pc = "open"
    /\ weight = ErrIO("TimedOut")
    /\ port = "none"

\* the bytes perform_io looks at in the response it is decoding
SignByte == weight_response[SignOffset + 1]
DigitField == SubSeq(weight_response, DigitsStart + 1, DigitsEnd)

\* characters a decimal number can be written with: digits, '.', a sign and
\* an exponent mark
DecimalChars == (48..57) \cup {46, 43, 45, 69, 101}

\* the digit field is certainly not a decimal number: it is not UTF-8, or
\* once trimmed it holds no digit or a character no decimal number contains
NotDecimal(field) ==
    LET u == Utf8Decode(field)
        t == Trim(u.cps)
    IN \/ ~u.ok
       \/ \A i \in 1..Len(t) : ~IsDigit(t[i])
       \/ \E i \in 1..Len(t) : t[i] \notin DecimalChars

\* C8: for the response being decoded, a sign byte other than 0x20 / 0x2d, a
\* digit field that is not UTF-8 or not a decimal number publishes
\* FailedToParse and no number; a number published for sign byte 0x20 is not
\* below zero and one published for 0x2d is not above zero.
C8_DecodeOrFailedToParse ==
    pc \in PubPcs /\ weight_response # NoResponse =>
        /\ (SignByte \notin {32, 45} \/ NotDecimal(DigitField))
              => pub_val = FailedToParse
        /\ pub_val.tag = "Ok" /\ SignByte = 32 => ~F64Negative(pub_val.payload)
        /\ pub_val.tag = "Ok" /\ SignByte = 45 => ~F64Positive(pub_val.payload)

\* C9: with a port that always opens and always answers sign 0x2d, digits
\* "012.50", the reading becomes Ok(-12.5) unless the engine is dropped first,
\* from then on the reading stays Ok(-12.5), and weight() returns it.
C9_ScriptedPortReportsMinus1250 ==
    /\ (port_script = "scripted") ~> (should_exit \/ weight = OkNeg1250)
    /\ [][port_script = "scripted" /\ weight = OkNeg1250
            => weight' = OkNeg1250]_vars
    /\ [](port_script = "scripted" /\ owner = "weight_return"
            => ret \in {NotOpenedYet, OkNeg1250})
    /\ [](port_script = "scripted" /\ owner = "weight_return"
            /\ published = OkNeg1250 => ret = OkNeg1250)

\* C9 witness: weight() returns Ok(-12.5) from the scripted port
C9_Witness ==
    /\ port_script = "scripted"
    /\ owner = "weight_return"
    /\ ret = OkNeg1250

(***************************************************************************)
(* Properties of the print job                                             *)
(***************************************************************************)
\* the status read handed back a whole frame with the print-head mark and
\* the size byte in place
ValidFrameRead ==
    /\ Len(status_data) = 32
    /\ status_data[1] = 128
    /\ status_data[2] = 32

\* the positions of a print call and of a current_label call
CurrentLabelPcs == {"cl_request_status", "cl_read_status", "cl_returned"}
InPrint == pr_pc \notin CurrentLabelPcs \cup {"idle"}

\* the frame's two error-information bytes (offsets 8 and 9) as one value
ErrorInfo == U16FromLeBytes(status_data[9], status_data[10])

\* C10: whenever the two error-information bytes (offsets 8 and 9) of an
\* otherwise valid status frame are not both zero, whatever their 16-bit
\* value and whatever the media bytes of the frame, print aborts with
\* StatusErrorFlags carrying the flags and has sent nothing but the status
\* request.
C10_ErrorBytesAbortPrint ==
    InPrint /\ ValidFrameRead /\ ErrorInfo # 0 =>
        /\ pr_pc = "returned"
        /\ pr_result.tag = "StatusErrorFlags"
        /\ pr_result.flags = ErrorInfo
        /\ written = <<StatusRequestCmd>>

\* the media-type byte (offset 11) of the frame that was read
MediaTypeByte == status_data[12]

\* C11: a valid status frame whose media-type byte is zero decodes to a
\* status without a label, so current_label returns Ok(None); print on it
\* aborts with NoMedia when the status has no error flags and with
\* StatusErrorFlags when it has some (the flag check comes first); nothing
\* but the status request has been written.
C11_NoMediaAfterErrorFlags ==
    /\ pr_pc = "cl_returned" /\ ValidFrameRead /\ MediaTypeByte = 0 =>
          pr_result = PrintOk /\ ~status.has_label
    /\ InPrint /\ ValidFrameRead /\ MediaTypeByte = 0 =>
          /\ pr_pc = "returned"
          /\ written = <<StatusRequestCmd>>
          /\ ~status.has_label
          /\ IF status.error_flags = 0
             THEN pr_result = PrintResult("NoMedia")
             ELSE /\ pr_result.tag = "StatusErrorFlags"
                  /\ pr_result.flags = status.error_flags

C11_Witness ==
    /\ pr_pc = "returned"
    /\ ValidFrameRead
    /\ MediaTypeByte = 0
    /\ status.error_flags # 0
    /\ pr_result.tag = "StatusErrorFlags"

\* print has read a status that has a label and no error flags, and has got
\* as far as the check of the image's dimensions
DimensionsChecked ==
    /\ InPrint
    /\ ValidFrameRead
    /\ status.has_label
    /\ status.error_flags = 0

\* the image does not fit the label of the status: another width, or on
\* die-cut media another height than the label's (twice the label's in high
\* resolution)
ImageMismatch ==
    \/ image.width # status.label.printable_dots_width
    \/ /\ status.label.ty.kind = "DieCut"
       /\ image.height # status.label.printable_dots_length
                           * (IF print_config.high_res THEN 2 ELSE 1)

\* C12: print returns WrongImageDimensions, with nothing but the status
\* request written, exactly when the image's width differs from the label's
\* printable width or, on die-cut media, its height differs from the label's
\* printable height (doubled in high resolution); the width is never doubled
\* and continuous media take every height.
C12_WrongImageDimensionsExactly ==
    DimensionsChecked =>
        /\ pr_result.tag = "WrongImageDimensions" <=> ImageMismatch
        /\ ImageMismatch =>
              /\ pr_pc = "returned"
              /\ written = <<StatusRequestCmd>>
              /\ pr_result.image_width = image.width
              /\ pr_result.image_height = image.height
              /\ pr_result.label_width = status.label.printable_dots_width

C12_Witness ==
    /\ DimensionsChecked
    /\ print_config.high_res
    /\ status.label.ty.kind = "DieCut"
    /\ image.width = status.label.printable_dots_width
    /\ image.height = status.label.printable_dots_length
    /\ pr_result.tag = "WrongImageDimensions"

\* the commands of a whole job other than the raster lines, in the order
\* print writes them
JobCommands ==
    <<StatusRequestCmd, RasterModeCmd,
      PrintInfoCmd(print_config, status.label, image),
      PrintModeCmd(print_config)>>
    \o (IF print_config.auto_cut THEN <<AutoCutCmd>> ELSE <<>>)
    \o <<ExpandedModeCmd(print_config), FeedMarginCmd(status.label),
         CompressionCmd, CommitCmd>>

\* C13: in a print call the first USB failure ends the job: print returns
\* the USB error in that very step, with no command and no raster line added;
\* after the return nothing more is written; and what has been written is
\* always an initial part of the job's command sequence, each command once.
C13_FirstUSBFailureEndsJob ==
    /\ [](InPrint => written = SubSeq(JobCommands, 1, Len(written)))
    /\ [][/\ InPrint /\ pr_result # PrintUSBError /\ pr_result' = PrintUSBError =>
               /\ pr_pc' = "returned"
               /\ written' = written
               /\ lines_sent' = lines_sent
          /\ pr_pc = "returned" =>
               /\ pr_pc' \in {"returned", "idle"}
               /\ written' \in {written, <<>>}
               /\ lines_sent' \in {lines_sent, 0}]_vars

C13_Witness ==
    /\ pr_pc = "returned"
    /\ pr_result = PrintUSBError
    /\ lines_sent > 0
    /\ lines_sent < image.height
    /\ written[Len(written)] = CompressionCmd

(***************************************************************************)
(* Properties of label resolution                                          *)
(***************************************************************************)
\* the status that was read carries a label: Label::try_from succeeded on
\* the session's model and the frame's media
LabelResolved == ValidFrameRead /\ status.has_label

\* C14: every label that resolution yields for a model fits that model's
\* raster line: twice the right margin plus the printable width is at most
\* 8 x line_width(model) dots, and so is the printable width alone.
C14_LabelFitsLine ==
    LabelResolved =>
        /\ 2 * status.label.margin_dots_right + status.label.printable_dots_width
              <= 8 * LineWidth(model)
        /\ status.label.printable_dots_width <= 8 * LineWidth(model)

\* the media bytes of the frame that was read: width (offset 10) and length
\* (offset 17)
MediaWidthByte == status_data[11]
MediaLengthByte == status_data[18]

\* the frame's media is in the geometry table for the session's model: the
\* 102 mm media are there for the wide models only
MediaListed ==
    /\ MediaWidthByte = 102 => IsWide(model)
    /\ \/ MediaTypeByte = 10 /\ MediaWidthByte \in ContinuousWidths
       \/ MediaTypeByte = 11
            /\ <<MediaWidthByte, MediaLengthByte>> \in DieCutSizes

\* C15: for every media that is not in the geometry table for the model (an
\* unlisted continuous width, an unlisted die-cut size, a 102 mm media on a
\* model with the standard head) resolution fails and the status read
\* returns InvalidLabel; no label comes out.
C15_UnlistedMediaIsInvalidLabel ==
    ValidFrameRead /\ MediaTypeByte \in {10, 11} /\ ~MediaListed =>
        /\ ~status.has_label
        /\ pr_pc \in {"returned", "cl_returned"}
        /\ pr_result.tag = "StatusError"
        /\ pr_result.inner = "InvalidLabel"

\* C16: a label resolved for continuous media has no printable height, and
\* a label resolved for die-cut media has one, on every model.
C16_LengthIffDieCut ==
    LabelResolved =>
        /\ MediaTypeByte = 10 => ~status.label.has_length
        /\ MediaTypeByte = 11 =>
              status.label.has_length /\ status.label.printable_dots_length > 0

C16_Witness ==
    /\ pr_pc = "cl_returned"
    /\ pr_result = PrintOk
    /\ LabelResolved
    /\ MediaTypeByte = 11
    /\ status.label.has_length
    /\ status.label.printable_dots_length = 1109

(***************************************************************************)
(* Properties of the raster lines                                          *)
(***************************************************************************)
\* C17: print never panics on what the device sends: whenever raster lines
\* are built, the right margin and the image's row fit the line buffer
\* (margin_dots_right + image width <= 8 x line_width(model)), so the bit
\* writer never writes past the end.
C17_BitWriterStaysInLine ==
    /\ pr_pc = "lines" =>
          status.label.margin_dots_right + image.width <= 8 * LineWidth(model)
    /\ pr_result # PrintPanic

\* bit n of the payload of a line command, counted from the most
\* significant bit of the payload's first byte
PayloadBit(line, n) == (line[4 + (n \div 8)] \div (2 ^ (7 - (n % 8)))) % 2

\* a raster line of the job in progress has been built and written; it is
\* the line of row lines_sent - 1
LineWritten == lines_sent > 0

\* pixel x of the row just written is dark
DarkPixel(x) == Luma(image, x, lines_sent - 1) < 128

\* C19: the payload of a line command has line_width(model) bytes after the
\* 3-byte header; its first m bits (m the label's right margin) are zero;
\* bit m + i is the darkness (luma < 0x80) of pixel w - 1 - i of the row,
\* taken with the inversion flag, so the row is scanned from right to left;
\* for an all-black row without inversion the w bits after the margin are
\* all one.
C19_RowPackedRightToLeft ==
    LineWritten =>
        LET m == status.label.margin_dots_right
            w == image.width
        IN /\ Len(last_line) = 3 + LineWidth(model)
           /\ SubSeq(last_line, 1, 3) = <<103, 0, LineWidth(model)>>
           /\ \A n \in 0..(m - 1) : PayloadBit(last_line, n) = 0
           /\ \A i \in 0..(w - 1) :
                 PayloadBit(last_line, m + i) = 1
                    <=> (DarkPixel(w - 1 - i) # print_config.invert)
           /\ image.luma = "black" /\ ~print_config.invert =>
                 \A i \in 0..(w - 1) : PayloadBit(last_line, m + i) = 1

C19_Witness ==
    /\ LineWritten
    /\ image.luma = "black"
    /\ ~print_config.invert
    /\ status.label.margin_dots_right = 42
    /\ PayloadBit(last_line, 41) = 0
    /\ PayloadBit(last_line, 42) = 1
    /\ PayloadBit(last_line, 42 + 235) = 1
    /\ PayloadBit(last_line, 42 + 236) = 0

\* the line command of the row just written, had the inversion flag been the
\* other way round
LineWithInvertToggled ==
    LineCommand(model, [print_config EXCEPT !.invert = ~print_config.invert],
                status.label, image, lines_sent - 1)

\* C20: for the same row and label, the w pixel bits of the payload encoded
\* with invert = true are the complement of those encoded with invert =
\* false, and the m margin bits and every bit from position m + w on are
\* zero in both encodings.
C20_InvertComplementsPixelBits ==
    LineWritten =>
        LET m == status.label.margin_dots_right
            w == image.width
            toggled == LineWithInvertToggled
        IN \A n \in 0..(8 * LineWidth(model) - 1) :
              IF m <= n /\ n < m + w
              THEN PayloadBit(toggled, n) = 1 - PayloadBit(last_line, n)
              ELSE /\ PayloadBit(toggled, n) = 0
                   /\ PayloadBit(last_line, n) = 0

C20_Witness ==
    /\ LineWritten
    /\ lines_sent = 2
    /\ print_config.invert
    /\ image.luma = "threshold"
    /\ PayloadBit(last_line, status.label.margin_dots_right - 1) = 0
    /\ PayloadBit(last_line, status.label.margin_dots_right) = 0
    /\ PayloadBit(last_line, status.label.margin_dots_right + 1) = 1
    /\ PayloadBit(LineWithInvertToggled, status.label.margin_dots_right) = 1

(***************************************************************************)
(* Properties of the status request                                        *)
(***************************************************************************)
\* the status read of the call in progress has handed back some bytes
StatusWasRead == status_data # <<>>

\* the status read failed with error `e`, nothing of the frame was decoded,
\* and the call returned it
StatusReadFailedWith(e) ==
    /\ pr_pc \in {"returned", "cl_returned"}
    /\ pr_result = [PrintResult("StatusError") EXCEPT !.inner = e]
    /\ status = NoStatus

\* C18: request_status writes the three-byte request, then checks the
\* response in a fixed order, each check with its own error: the byte count
\* (32), then byte 0 (0x80), then byte 1 (0x20). A response that fails
\* several checks reports the first, and media and flags are decoded only
\* once all three have passed.
C18_StatusChecksInOrder ==
    /\ pr_pc \in {"read_status", "cl_read_status"} =>
          written = <<StatusRequestCmd>>
    /\ StatusWasRead =>
          /\ written[1] = StatusRequestCmd
          /\ IF Len(status_data) # 32
             THEN StatusReadFailedWith("WrongResponseSizeUSB")
             ELSE IF status_data[1] # 128
             THEN StatusReadFailedWith("WrongPrintHeadMark")
             ELSE IF status_data[2] # 32
             THEN StatusReadFailedWith("WrongResponseSizeHeader")
             ELSE pr_result.inner \notin
                    {"WrongResponseSizeUSB", "WrongPrintHeadMark",
                     "WrongResponseSizeHeader"}

C18_Witness ==
    /\ Len(status_data) = 32
    /\ status_data[1] # 128
    /\ status_data[2] # 32
    /\ StatusReadFailedWith("WrongPrintHeadMark")

(***************************************************************************)
(* Properties of attaching a printer                                       *)
(***************************************************************************)
\* the product IDs of the supported models
SupportedProductIds ==
    {8213, 8214, 8231, 8232, 8233, 8384, 8219, 8258, 8224, 8234}
\* device i of the enumeration passes every test of the selection
Qualifies(i) ==
    /\ devices[i].desc_ok
    /\ devices[i].vendor_id = 1273
    /\ devices[i].product_id \in SupportedProductIds
    /\ \/ model_filter = NoFilter
       \/ ModelTryFromU16(devices[i].product_id).model = model_filter
\* the first device that qualifies, 0 when none does
FirstQualifying ==
    IF \E i \in 1..Len(devices) : Qualifies(i)
    THEN CHOOSE i \in 1..Len(devices) :
             Qualifies(i) /\ \A j \in 1..(i - 1) : ~Qualifies(j)
    ELSE 0
\* attach has selected a device and is setting it up
SelectedPcs ==
    {"open", "auto_detach", "select_interface", "claim_interface",
     "read_serial", "write_clear", "write_init"}
\* attach went through the enumeration and has returned
ScanFinished == at_pc = "returned" /\ at_idx > 0

\* C21: attach selects the first device in enumeration order that has a
\* readable descriptor, the vendor ID 0x04f9, a supported product ID and the
\* model of the filter (any model without a filter); devices that fail a
\* test are passed over and the scan goes on; when no device qualifies
\* attach returns NoPrinter and has opened no device.
C21_FirstQualifyingDeviceSelected ==
    /\ at_pc = "scan" => \A j \in 1..(at_idx - 1) : ~Qualifies(j)
    /\ at_pc \in SelectedPcs =>
           FirstQualifying # 0 /\ at_idx = FirstQualifying
    /\ opened # <<>> => FirstQualifying # 0 /\ opened = <<FirstQualifying>>
    /\ ScanFinished /\ FirstQualifying # 0 => opened = <<FirstQualifying>>
    /\ ScanFinished /\ FirstQualifying = 0 =>
           at_result = AttachErr("NoPrinter") /\ opened = <<>>

\* the second device is selected after a supported printer of another
\* model than the filter's was passed over
C21_Witness ==
    /\ at_pc = "auto_detach"
    /\ model_filter = "BrotherQL580N"
    /\ Len(devices) = 2
    /\ devices[1] = Device(TRUE, VENDOR_ID, 8232)
    /\ opened = <<2>>

\* every 16-bit product ID outside the table is refused, every one inside
\* resolves to a model
LookupOnlyForTable ==
    \A pid \in 0..65535 :
        /\ ModelTryFromU16(pid).ok <=> pid \in SupportedProductIds
        /\ ModelTryFromU16(pid).ok => ModelTryFromU16(pid).model \in Models
\* distinct table IDs resolve to distinct models
LookupInjective ==
    \A p1 \in SupportedProductIds : \A p2 \in SupportedProductIds :
        p1 # p2 => ModelTryFromU16(p1).model # ModelTryFromU16(p2).model

\* C22: the product-ID lookup returns a model only for the ten product IDs
\* of the table, distinct table IDs give distinct models, and every other
\* 16-bit product ID, the mass-storage ID 0x2049 included, gives an error
\* value.
C22_ProductIdLookup ==
    at_pc = "scan" /\ at_idx <= Len(devices) =>
        LET pid == devices[at_idx].product_id
            found == ModelTryFromU16(pid)
        IN /\ found.ok <=> pid \in SupportedProductIds
           /\ pid \in MASS_STORAGE_PRODUCT_IDS => found = ModelErr
           /\ found.ok =>
                  \A other \in SupportedProductIds \ {pid} :
                      ModelTryFromU16(other).model # found.model
           /\ LookupOnlyForTable
           /\ LookupInjective

\* the scan looks up a mass-storage product ID
C22_Witness ==
    /\ at_pc = "scan"
    /\ at_idx <= Len(devices)
    /\ devices[at_idx] = Device(TRUE, VENDOR_ID, 8265)

\* lower case of the letters that occur in model names
LowerChar(c) ==
    CASE c = "B" -> "b" [] c = "R" -> "r" [] c = "O" -> "o" [] c = "T" -> "t"
      [] c = "H" -> "h" [] c = "E" -> "e" [] c = "Q" -> "q" [] c = "L" -> "l"
      [] c = "N" -> "n" [] c = "D" -> "d" [] OTHER -> c
LowerName(name) == [i \in 1..Len(name) |-> LowerChar(name[i])]
\* the numeric/suffix parts of the ten model names
ModelSuffixes ==
    {<<"5", "0", "0">>, <<"5", "5", "0">>, <<"5", "6", "0">>,
     <<"5", "7", "0">>, <<"5", "8", "0", "N">>, <<"6", "0", "0">>,
     <<"6", "5", "0", "T", "D">>, <<"7", "0", "0">>, <<"1", "0", "5", "0">>,
     <<"1", "0", "6", "0", "N">>}
\* a name that, letter case aside, is a model's suffix, alone or behind
\* "QL" or "BrotherQL"
TolerantName(name) ==
    \E suffix \in ModelSuffixes :
        LowerName(name) \in
            {LowerName(suffix),
             LowerName(<<"Q", "L">> \o suffix),
             LowerName(<<"B", "r", "o", "t", "h", "e", "r", "Q", "L">> \o suffix)}
\* reconnect_printer has parsed the configured name
NameParsed == at_pc # "idle" /\ printer_model # NoName

\* C23: a model name parses in any letter case, with or without the "QL"
\* or "BrotherQL" prefix, to its model; every other string is an error.
C23_NameParseCaseTolerant ==
    NameParsed =>
        /\ TolerantName(printer_model) => model_filter # NoFilter
        /\ ~TolerantName(printer_model) =>
               model_filter = NoFilter /\ at_pc = "returned" /\ at_idx = 0

(***************************************************************************)
(* Properties of the worker's order of operations                          *)
(***************************************************************************)
\* the worker's positions in front of a device operation
DevicePcs == {"open"} \cup IOSteps
\* this step is the worker completing a device operation
DeviceOpStep == pc \in DevicePcs /\ pc' # pc

\* C24: the worker checks the cancellation flag after every protocol step,
\* succeeded or failed, before its next device operation; so once the flag
\* is set the only device operation the worker still completes is the one
\* that was in progress when the flag was set.
C24_OneOperationAfterCancel ==
    [][should_exit /\ DeviceOpStep /\ cancel_at.pc \in DevicePcs
           => pc = cancel_at.pc]_vars

\* the last device operation was a port open that failed
OpenFailed == last_op.op = "open" /\ ~last_op.ok
\* the worker is inside open_port's guard.wait(PORT_TIMEOUT)
InBackoff == site = "backoff" /\ pc \in WaitPcs

\* C25: a failed port open publishes the open error and is followed by the
\* backoff wait on the guard; the next open attempt is made only when that
\* wait ran its full time, so no two failed opens follow each other without
\* a completed backoff; and the backoff is entered only after a failed open:
\* after a failed step or an unparsable response the port is reopened at
\* once.
C25_BackoffOnlyAfterFailedOpen ==
    /\ [](InBackoff => OpenFailed /\ published = ErrSerialPort(last_op.err))
    /\ [](pc \in PubPcs /\ pub_ret = "backoff" =>
              OpenFailed /\ pub_val = ErrSerialPort(last_op.err))
    /\ [][pc = "open" /\ pc' # pc /\ OpenFailed' =>
              pub_ret' = "backoff"]_vars
    /\ [][pc # "open" /\ pc' = "open" =>
              IF OpenFailed
              THEN InBackoff /\ ~should_exit
              ELSE pc = "pub_store" /\ port' = "none"]_vars

\* the backoff after a failed open has run out and the worker is about to
\* open the port again
C25_Witness ==
    /\ pc = "open"
    /\ OpenFailed
    /\ published = ErrSerialPort(last_op.err)
    /\ ~should_exit

\* the device operation `op` succeeded and was the last one
LastOk(op) == last_op = [op |-> op, ok |-> TRUE, err |-> ""]

\* C26: on an open port the device operations follow the cycle write info,
\* read info, write weight, read weight; the weight request is written only
\* after the info response of the iteration was read; a success is
\* published only after all four steps of the iteration succeeded; and an
\* iteration begins only after a port open or after an iteration that
\* completed its four steps and published a value.
C26_FourStepCycle ==
    /\ [](pc \in IOSteps => port = "open")
    /\ [](pc = "write_info" =>
              \/ LastOk("open")
              \/ LastOk("read_weight") /\ published.tag = "Ok")
    /\ [](pc = "read_info" => LastOk("write_info"))
    /\ [](pc = "write_weight" => LastOk("read_info"))
    /\ [](pc = "read_weight" => LastOk("write_weight"))
    /\ [](pc = "parse" =>
              LastOk("read_weight") /\ Len(weight_response) = WeightResponseLen)
    /\ [][(pc' # pc /\ pc \in IOSteps) => (last_op').op = pc]_vars
    /\ [][kind = "serial" /\ published' # published /\ (published').tag = "Ok"
              => LastOk("read_weight") /\ pub_ret = "iter_wait"]_vars

\* a second iteration begins on the same port after a value was published
C26_Witness ==
    /\ pc = "write_info"
    /\ LastOk("read_weight")
    /\ published.tag = "Ok"
    /\ weight = published

\* the port is open: the worker is polling
Polling == port = "open"

\* C27: the worker is disconnected, opens the port, polls, falls back to
\* disconnected on a failure, and ends cancelled; cancelled is terminal: an
\* exited worker makes no port open, read or write, the published reading
\* never changes again, and the worker is not started again.
C27_CancelledIsTerminal ==
    /\ [](pc = "exited" => ~Polling /\ should_exit)
    /\ [][~Polling /\ Polling' => pc = "open" /\ (last_op').op = "open" /\ (last_op').ok]_vars
    /\ [][Polling /\ ~Polling' =>
              \/ pc' = "exited"
              \/ pc' = "open" /\ (published').tag # "Ok"]_vars
    /\ [][pc = "exited" =>
              /\ pc' = "exited"
              /\ last_op' = last_op
              /\ port' = port
              /\ weight' = weight
              /\ published' = published]_vars

\* the engine was dropped after the worker had lost a port and exited; the
\* thread has been joined
C27_Witness ==
    /\ pc = "exited"
    /\ owner = "dropped"
    /\ runloop_handle = "None"
    /\ kind = "serial"
    /\ last_op.op \in IOSteps

(***************************************************************************)
(* Properties of the command sequence of a print job                       *)
(***************************************************************************)
\* the status that was read passes every check print makes before it writes
\* the first command of the job
PreflightPassed == DimensionsChecked /\ ~ImageMismatch
\* the row count of a print-information command: bytes 7..10, low byte first
RowCount(cmd) ==
    cmd[8] + 256 * cmd[9] + 65536 * cmd[10] + 16777216 * cmd[11]

\* C28: when the checks of the status pass and every write succeeds, print
\* writes after the status exchange raster mode, print information, print
\* mode, the auto-cut rate (only with auto_cut), expanded mode, feed margin,
\* compression off, then one line command per image row from the top row
\* down, then the commit command as the last write, and returns Ok; the row
\* count of the print information is the number of lines written.
C28_FullCommandSequence ==
    /\ [](PreflightPassed /\ pr_pc = "returned" /\ pr_result # PrintUSBError =>
              /\ pr_result = PrintOk
              /\ written = JobCommands
              /\ written[Len(written)] = CommitCmd
              /\ lines_sent = image.height
              /\ RowCount(written[3]) = lines_sent)
    /\ [][InPrint /\ lines_sent' # lines_sent /\ pr_pc' # "idle" =>
              /\ written' = written
              /\ written[Len(written)] = CompressionCmd
              /\ lines_sent' = lines_sent + 1
              /\ last_line' = LineCommand(model, print_config, status.label,
                                          image, lines_sent)]_vars

\* bit `mask` (a power of two) of the byte `b` is set
BitOf(b, mask) == (b \div mask) % 2 = 1
\* the position of the expanded-mode command in a job
ExpandedAt == IF print_config.auto_cut THEN 6 ELSE 5

\* C29: the auto-cut bit (0x40) of the print-mode command is set exactly
\* with config.auto_cut; the auto-cut rate command, rate 1, is written
\* exactly with config.auto_cut, right after the print mode and before the
\* expanded mode; the prefer-quality bit (0x40) of the print-information
\* flags is set exactly with priority Quality; the validate bits (0x02,
\* 0x04, 0x08) and the recover bit (0x80) are always set.
C29_AutoCutAndQualityBits ==
    InPrint =>
        /\ Len(written) >= 3 =>
              /\ SubSeq(written[3], 1, 3) = <<27, 105, 122>>
              /\ BitOf(written[3][4], 64) <=> print_config.priority = "Quality"
              /\ BitOf(written[3][4], 2) /\ BitOf(written[3][4], 4)
              /\ BitOf(written[3][4], 8) /\ BitOf(written[3][4], 128)
        /\ Len(written) >= 4 =>
              /\ SubSeq(written[4], 1, 3) = <<27, 105, 77>>
              /\ BitOf(written[4][4], 64) <=> print_config.auto_cut
        /\ Len(written) >= 5 =>
              (written[5] = <<27, 105, 65, 1>> <=> print_config.auto_cut)
        /\ Len(written) >= ExpandedAt =>
              SubSeq(written[ExpandedAt], 1, 3) = <<27, 105, 75>>
        /\ \A i \in 1..Len(written) :
              written[i] = <<27, 105, 65, 1>> => i = 5 /\ print_config.auto_cut

\* a job at speed priority with auto-cut has been printed
C29_Witness ==
    /\ pr_pc = "returned"
    /\ pr_result = PrintOk
    /\ print_config.priority = "Speed"
    /\ print_config.auto_cut
    /\ written[5] = AutoCutCmd

\* print's status exchange or one of its checks of the status has failed
PreflightFails ==
    \/ pr_pc = "returned" /\ ~StatusWasRead
    \/ StatusWasRead /\ ~ValidFrameRead
    \/ ValidFrameRead /\ status.error_flags # 0
    \/ ValidFrameRead /\ ~status.has_label
    \/ DimensionsChecked /\ ImageMismatch

\* C30: when the status exchange or a check of the status fails (USB or
\* validation error, error flags, no media, no label for the media, image
\* dimensions), print has written nothing but the three bytes of the status
\* request: neither raster mode nor any later command nor a line.
C30_OnlyStatusRequestOnFailure ==
    InPrint /\ PreflightFails =>
        /\ pr_pc = "returned"
        /\ pr_result # PrintOk
        /\ written \in {<<>>, <<StatusRequestCmd>>}
        /\ StatusWasRead => written = <<StatusRequestCmd>>
        /\ Len(StatusRequestCmd) = 3
        /\ lines_sent = 0

\* print has returned because the media of the status has no label
C30_Witness ==
    /\ pr_pc = "returned"
    /\ ValidFrameRead
    /\ MediaTypeByte # 0
    /\ ~status.has_label
    /\ written = <<StatusRequestCmd>>

(***************************************************************************)
(* Properties of the status codes                                          *)
(***************************************************************************)
\* the documented codes of the three bytes
StatusTypeNames ==
    (0 :> "StatusReply") @@ (1 :> "PrintingCompleted") @@ (2 :> "ErrorOccurred")
    @@ (5 :> "Notification") @@ (6 :> "PhaseChange")
PhaseTypeNames == (0 :> "Waiting") @@ (1 :> "Printing")
NotificationNames == (0 :> "None") @@ (3 :> "CoolingStart") @@ (4 :> "CoolingFinish")
\* what a byte stands for under a table of documented codes: the named
\* variant, or Unknown with the byte itself
CodeOf(names, b) ==
    IF b \in DOMAIN names THEN [name |-> names[b], byte |-> 0]
    ELSE [name |-> "Unknown", byte |-> b]
\* the three decoders agree with their tables on every byte value
CodesTotal ==
    \A b \in 0..255 :
        /\ StatusTypeFrom(b) = CodeOf(StatusTypeNames, b)
        /\ PhaseTypeFrom(b) = CodeOf(PhaseTypeNames, b)
        /\ NotificationFromByte(b) = CodeOf(NotificationNames, b)
\* a frame has been decoded into the status
StatusDecoded == ValidFrameRead /\ status # NoStatus

\* C31: the status-type (offset 18), phase-type (offset 19) and notification
\* (offset 22) bytes decode without loss: a documented code gives its named
\* variant, every other byte value gives Unknown carrying that byte, for
\* all 256 values, and the notification byte 0x00 gives no notification.
C31_CodesKeepUnknownBytes ==
    StatusDecoded =>
        /\ status.status_type = CodeOf(StatusTypeNames, status_data[19])
        /\ status.phase_type = CodeOf(PhaseTypeNames, status_data[20])
        /\ status.notification = CodeOf(NotificationNames, status_data[23])
        /\ status_data[23] = 0 <=> status.notification.name = "None"
        /\ CodesTotal

\* a frame with three undocumented codes has been decoded
C31_Witness ==
    /\ StatusDecoded
    /\ status.status_type = [name |-> "Unknown", byte |-> 7]
    /\ status.phase_type = [name |-> "Unknown", byte |-> 128]
    /\ status.notification = [name |-> "Unknown", byte |-> 5]

(***************************************************************************)
(* Properties of the attach sequence                                       *)
(***************************************************************************)
\* the steps of attach on the selected device, in the order of the claim
AttachOrder ==
    <<"open", "auto_detach", "select_interface", "claim_interface",
      "read_serial", "write_clear", "write_init">>
\* the errors each step can return
StepErrors(step) ==
    IF step = "select_interface"
    THEN {"USBError", "NoInterface", "NoInterfaceDescriptor", "NoInEndpoint",
          "NoOutEndpoint"}
    ELSE {"USBError"}
\* the position of a step in the order
StepIndex(step) == CHOOSE i \in 1..Len(AttachOrder) : AttachOrder[i] = step

\* C32: attach opens the device, enables the automatic kernel-driver
\* detach, selects interface and endpoints, claims the interface, reads the
\* serial number, writes the zero bytes and writes the initialize command,
\* in this order; it returns a session only when all seven succeeded; a
\* step that fails returns its own error and no later step is executed; a
\* missing bulk endpoint is reported before the interface is claimed.
C32_AttachStepsInOrder ==
    /\ [](at_pc = "returned" /\ at_result = AttachOk =>
              model # "none" /\ opened = <<at_idx>>)
    /\ [](at_pc \in SelectedPcs => at_result # AttachOk /\ model = "none")
    /\ [][(at_pc \in SelectedPcs /\ at_pc' # at_pc) =>
              LET i == StepIndex(at_pc)
              IN IF at_pc' = "returned"
                 THEN IF at_result' = AttachOk
                      THEN i = Len(AttachOrder)
                      ELSE at_result'.err \in StepErrors(at_pc) /\ model' = "none"
                 ELSE /\ i < Len(AttachOrder)
                      /\ at_pc' = AttachOrder[i + 1]
                      /\ at_result' = at_result]_vars
    /\ [][at_result' # at_result /\ at_pc # "idle" => at_pc' = "returned"]_vars
    /\ [][at_pc = "returned" => at_pc' \in {"returned", "idle"}]_vars
    /\ [](at_result.err \in {"NoInEndpoint", "NoOutEndpoint", "NoInterface",
                             "NoInterfaceDescriptor"} =>
              at_pc \in {"returned", "idle"} /\ opened # <<>>)

\* attach has opened a device and returned because it has no bulk-OUT
\* endpoint
C32_Witness ==
    /\ at_pc = "returned"
    /\ at_result = AttachErr("NoOutEndpoint")
    /\ opened = <<2>>
    /\ model = "none"

\* the steps of attach in which the device handle is open (attach.rs 143-167)
HandlePcs ==
    {"auto_detach", "select_interface", "claim_interface", "read_serial",
     "write_clear", "write_init"}

\* the printer sessions alive: the one App::printer holds and the handle of
\* an attach on its way
LiveSessions ==
    (IF at_result = AttachOk THEN 1 ELSE 0) + (IF at_pc \in HandlePcs THEN 1 ELSE 0)

\* C34: the application holds at most one printer session at any time:
\* every call of reconnect_printer leaves the application without a session
\* (no printer held, no model) before anything else happens, also when the
\* configured name does not parse and attach is never called; no session is
\* held while attach runs, and attach is not entered on a name that fails.
C34_OneSessionAtATime ==
    /\ [](LiveSessions <= 1)
    /\ [](at_pc \notin {"idle", "returned"} => at_result # AttachOk /\ model = "none")
    /\ [][(at_pc' # at_pc /\ at_pc = "idle")
            => /\ at_result' = AttachErr("NoPrinter")
               /\ model' = "none"
               /\ released' = (at_result = AttachOk)
               /\ (NameFailsToParse => at_pc' = "returned")]_vars

\* a session was held, the name was changed to one that does not parse, and
\* reconnect_printer has returned without the session and without attaching
C34_Witness ==
    /\ at_pc = "returned"
    /\ released
    /\ NameFailsToParse
    /\ at_idx = 0
    /\ at_result = AttachErr("NoPrinter")
    /\ model = "none"

(***************************************************************************)
(* Properties of the emulated worker                                       *)
(***************************************************************************)
\* the doubles 42.0 and 42.0 + n * 0.1 of the ramp
Baseline == OkWeight(F64Fin(FALSE, 420, -1))
RampValue(r) ==
    /\ r.tag = "Ok"
    /\ r.payload.cls = "fin" /\ ~r.payload.neg /\ r.payload.e10 = -1
    /\ r.payload.ulp5 = r.payload.num - 420

\* the double of the reading is greater than 50.0
ExceedsCeiling(r) ==
    r.payload.num > 500 \/ (r.payload.num = 500 /\ r.payload.ulp5 > 0)

\* the double one addition of 0.1 above the reading's
OneStepAbove(r) ==
    OkWeight([r.payload EXCEPT !.num = @ + 1, !.ulp5 = @ + 1])

\* the worker's assignment to the shared reading ends with this step
Publishes == pc = "pub_store" /\ pc' # "pub_store"

\* C38: the emulated worker first publishes 42.0; each later publication
\* follows exactly one completed wait of the loop and is 0.1 above the one
\* before if that did not exceed 50.0, and 42.0 if it did; every published
\* value is a success of at least 42.0 whose predecessor on the ramp is not
\* above 50.0.
C38_EmulatedRamp ==
    /\ [](kind = "emulated" /\ published # NotOpenedYet =>
            /\ RampValue(published)
            /\ published.payload.num >= 420
            /\ published.payload.num <= 501
            /\ (published # Baseline =>
                  ~ExceedsCeiling(OkWeight([published.payload EXCEPT
                                             !.num = @ - 1, !.ulp5 = @ - 1]))))
    /\ [][(Publishes /\ kind = "emulated") =>
            published' = (IF published = NotOpenedYet THEN Baseline
                          ELSE IF ExceedsCeiling(published) THEN Baseline
                          ELSE OneStepAbove(published))]_vars
    /\ [][(pc' # pc /\ kind = "emulated") =>
            /\ (pc' = "pub_lock" => pc = "emul_publish")
            /\ (pc' = "emul_publish" => pc = "emul_vary")
            /\ (pc' = "emul_vary" =>
                  pc = "wait_cond" /\ site = "emul" /\ ~should_exit)
            /\ (pc = "pub_store" => pc' = "wait_lock" /\ site' = "emul")]_vars

\* the value above the ceiling has been published and the worker, after its
\* wait, is about to publish the baseline again
C38_Witness ==
    /\ kind = "emulated"
    /\ ExceedsCeiling(published)
    /\ published.payload.num = 500
    /\ fake_weight = FakeWeightInit
    /\ pc = "pub_store"
    /\ pub_val = Baseline

(***************************************************************************)
(* Properties of the guard                                                 *)
(***************************************************************************)
\* the worker is inside guard.wait with the flag set: set before the wait
\* took the mutex, or set while the worker was parked
CancelledInWait == should_exit /\ pc \in WaitPcs

\* C40: guard.wait never misses a cancellation: with the flag set before or
\* during the wait it returns AwakeError (the worker exits) without the
\* timeout having to run out; it returns Ok only from the evaluation made
\* after the timeout has run out, with the flag unset; guard.check returns
\* AwakeError exactly when the flag is set.
C40_WaitNeverMissesCancel ==
    /\ CancelledInWait ~> (pc = "exited")
    /\ [][(pc' # pc /\ pc = "wait_cond") =>
            IF should_exit THEN pc' = "exited"
            ELSE \/ pc' = "wait_parked"
                 \/ pc' = AfterWait(site) /\ WaitCheckElapsed /\ ~WaitCheck]_vars
    /\ [][(pc' # pc /\ pc = "chk_read") =>
            IF should_exit THEN pc' = "exited" ELSE pc' = AfterCheck(site)]_vars
    /\ [][(pc' = "exited" /\ pc # "exited") =>
            should_exit /\ pc \in {"wait_cond", "chk_read"}]_vars

\* the flag was set while the worker was parked in the wait between two
\* iterations of perform_io, and the worker has left
C40_Witness ==
    /\ cancel_at = [pc |-> "wait_parked", site |-> "iter"]
    /\ pc = "exited"
    /\ owner = "join"

(***************************************************************************)
(* Properties of the user interface                                        *)
(***************************************************************************)
\* C33: a confirmed print action retries at most once: one invocation of
\* print_voucher from the dialog makes at most one reconnect and at most two
\* print attempts and comes to an end, whatever the printer does.
C33_PrintRetriesAtMostOnce ==
    /\ reconnects <= 1
    /\ print_attempts <= 2
    /\ ui_exit # "stack overflow"

\* perform_action has come to its end: the handler returned, run_in_terminal
\* returned, or the thread panicked
HandlerOver == ui_pc \in {"idle", "exited", "crashed"}

\* the job confirmed last asked for a voucher and the print of it failed
PrintFailed ==
    /\ job.action.print
    /\ print_outcome \in {"no printer", "no label", "label error",
                           "not continuous", "print error", "USB error", "panic"}

ErrorShown == popup # None /\ popup[1].kind = "Message" /\ popup[1].ty = "Error"
SuccessShown == popup # None /\ popup[1].kind = "Message" /\ popup[1].text = SuccessText

\* C35: with print and sale confirmed, the sale is recorded only after the
\* voucher print has returned success, and it is the sale of the confirmed
\* product and weight; when printing has failed, no sale is recorded, an
\* error message is shown and the success message is not.
C35_SaleOnlyAfterPrint ==
    /\ [][sales' # sales =>
            /\ ui_pc = "perform_sale" /\ job.action.sale
            /\ (job.action.print => print_outcome = "printed")
            /\ sales' = Append(sales, Sale(job.product, job.weight_kg))]_vars
    /\ [][(ui_pc \notin {"idle", "startup"} /\ PrintFailed') => sales' = sales]_vars
    /\ []((HandlerOver /\ PrintFailed) => ErrorShown /\ ~SuccessShown)

PopupKind == IF popup = None THEN "None" ELSE popup[1].kind

\* C36: after every key event the focus and the popup agree: focus Dialog
\* exactly with a Dialog popup, focus Message exactly with a Message popup,
\* focus Product or Sale exactly with no popup; the handler of Enter never
\* finds the dialog missing.
C36_FocusMatchesPopup ==
    /\ focus = "Dialog" <=> PopupKind = "Dialog"
    /\ focus = "Message" <=> PopupKind = "Message"
    /\ focus \in {"Product", "Sale"} <=> PopupKind = "None"
    /\ focus = "Dialog" => dialog_idx \in {Some(0), Some(1)}
    /\ ui_exit # "panic: Dialog is focused, but not present."

\* a dialog for a product sold by weight was confirmed and the label query
\* failed: the error message has the focus
C36_Witness ==
    /\ ui_pc = "idle"
    /\ focus = "Message"
    /\ popup = Some(Message("Error", "Fehler bei der Label-Abfrage"))
    /\ dialog_idx = Some(0)
    /\ job.weight_kg # None

\* the f64 is a number and not below zero
F64GeZero(v) == v.cls # "nan" /\ (~v.neg \/ (v.cls = "fin" /\ v.num = 0))

\* Enter is handled with the focus on the sale chunk and a product selected
EnterWithProduct ==
    /\ ui_pc = "idle" /\ focus = "Sale" /\ product_idx # None
    /\ focus' \in {"Dialog", "Message"}

\* C37: for a product sold by weight the dialog is opened only on a reading
\* that is a success with a weight of at least zero, and carries that
\* weight; a scale error or a negative weight gives an error message; for a
\* fixed-price product the dialog carries no weight, whatever the scale
\* shows; the voucher and the sale use the product and weight of the dialog.
C37_DialogCarriesCheckedWeight ==
    /\ [][EnterWithProduct =>
            LET product == products[product_idx[1] + 1]
                reading_ok == weight.tag = "Ok" /\ F64GeZero(weight.payload)
            IN IF ~product.is_kg_price
               THEN popup' = Some(Dialog(SelectedAction(action_idx[1]), product, None))
               ELSE IF reading_ok
               THEN popup' = Some(Dialog(SelectedAction(action_idx[1]), product,
                                         Some(weight.payload)))
               ELSE (popup')[1].kind = "Message" /\ (popup')[1].ty = "Error"]_vars
    /\ [][(PopupKind # "Dialog" /\ (popup') # None /\ (popup')[1].kind = "Dialog")
            => EnterWithProduct]_vars
    /\ [][(job' # job /\ job' # NoJob) => job' = popup[1]]_vars
    /\ [][sales' # sales =>
            sales' = Append(sales, Sale(job.product, job.weight_kg))]_vars

(***************************************************************************)
(* Properties of the database                                              *)
(***************************************************************************)
\* C39: when add_product or delete_product returns an error, the in-memory
\* product list is the one from before the call: the new product is not in
\* it, the product to delete is still in it.
C39_FailedCallKeepsList ==
    [][((db_result').op \in {"add_product", "delete_product"} /\ ~(db_result').ok)
          => products' = products]_vars

====
